---- MODULE Spec2Model ----
(***************************************************************************)
(* A model of the DR4SR training harness:                                  *)
(*   - BaseModel.fit, BaseModel.fit_loop and the hooks it drives, one      *)
(*     action per statement (src/model/basemodel.py)                       *)
(*   - MetaModel._init_model, MetaModel.training_epoch and                 *)
(*     MetaModel._outter_loop                                              *)
(*     (src/model/metamodel.py)                                            *)
(*   - BaseModel._neg_sampling and the batch a training step scores        *)
(*   - SeqPoolingLayer.forward (src/models/layers.py)                      *)
(*   - BaseModel._test_epoch_end, BaseModel.topk and BaseModel.evaluate    *)
(* The specifications of the module: Spec (the training control loop),     *)
(* SpecNeg (negative sampling), SpecPool (sequence pooling), SpecTest      *)
(* (metric averaging), SpecTopk (top-k retrieval), SpecEval (the           *)
(* all-domain aggregation of validation and of evaluate) and SpecMeta (a   *)
(* MetaModel trained long enough to exhaust its meta loader).              *)
(***************************************************************************)
EXTENDS Integers, Sequences, FiniteSets, TLC

VARIABLES
    \* ---- the trainer (Spec) ----
    cls,             \* "BaseModel" or "MetaModel": the class of self
    config,          \* the configuration keys the control loop reads
    domain_name_list,\* self.domain_name_list
    attrs,           \* what self holds of: item_embedding, fiid, logged_metrics,
                     \* a forward taking a batch, GRU4Rec's training_step
    pc,              \* the statement of fit_loop (or of a callee) about to run
    nepoch,          \* fit_loop's local nepoch, Unbound before its assignment
    e,               \* fit_loop's loop variable e, Unbound before the loop
    batch_idx,       \* batches training_epoch's loader has yielded this epoch
    domain_idx,      \* index into domain_name_list of the validation loop
    logged_metrics,  \* self.logged_metrics
    calls,           \* the calls that have returned, in order
    ckpt_path,       \* self.ckpt_path
    eval_domain,     \* <<val_dataset's eval domain, self.eval_domain>>
    interrupted,     \* where the first KeyboardInterrupt was raised, or "none"
    stop_training,   \* fit_loop's local stop_training (FALSE until assigned)
    opt_steps,       \* optimizer.step() calls on the trained (sub-)model
    last_step,       \* which training_step computed the last trained loss
    step_counter,    \* MetaModel.step_counter
    proxy,           \* _outter_loop's proxy_model: loaded parameters, steps taken
    outer_idx,       \* _outter_loop's batch_idx
    meta_steps,      \* meta_optimizer.step() calls
    metaloader_iter, \* batches consumed from self.metaloader_iter
    meta_batch,      \* index of the meta batch the last outer loop used
    \* ---- negative sampling (SpecNeg) ----
    neg,             \* the batch, the sampler's configuration and its result
    \* ---- sequence pooling (SpecPool) ----
    pool,            \* the layer, its inputs and its result
    \* ---- evaluation (SpecTest, SpecTopk, SpecEval) ----
    test             \* a test epoch's outputs, a topk call, or evaluate's output

fitVars == <<pc, nepoch, e, batch_idx, domain_idx, logged_metrics, calls,
             ckpt_path, eval_domain, interrupted, stop_training>>
metaVars == <<opt_steps, last_step, step_counter, proxy, outer_idx, meta_steps,
              metaloader_iter, meta_batch>>
trainerVars == <<cls, config, domain_name_list, attrs, fitVars, metaVars>>
vars == <<trainerVars, neg, pool, test>>

----------------------------------------------------------------------------
(* Bounds of the explored configurations.                                  *)

MaxEpochs == 3
MaxBatches == 2
MaxWarmup == 0
MaxInterval == 2
MaxDescent == 1
MaxMetric == 1

\* The values of a logged metric or loss: the control loop stores and sums
\* them and never branches on them, so the two ends of the range stand for it
MetricValues == {0, MaxMetric}

----------------------------------------------------------------------------
(* Python strings are sequences of characters, so that substring tests and *)
(* removeprefix are computed rather than assumed.                          *)

Concat(s, t) == s \o t

\* Python `a in b` on strings.
IsSubstring(a, b) ==
    \E i \in 0..(Len(b) - Len(a)) : SubSeq(b, i + 1, i + Len(a)) = a

\* Python str.removeprefix.
RemovePrefix(s, p) ==
    IF Len(p) <= Len(s) /\ SubSeq(s, 1, Len(p)) = p
    THEN SubSeq(s, Len(p) + 1, Len(s))
    ELSE s

KeyEpoch == <<"e", "p", "o", "c", "h">>
KeyTrainLoss == <<"t", "r", "a", "i", "n", "_", "l", "o", "s", "s", "_", "0">>
Underscore == <<"_">>

\* The metric names validation_step returns for config['val_metrics'] at the
\* first cutoff.
ValMetricNames == { <<"n", "d", "c", "g", "@", "2", "0">> }

DomainLists == { << <<"A">>, <<"B">> >> }


CkptPath == "best.ckpt"

Call(op, arg) == [op |-> op, arg |-> arg]

\* dict.update: the entries of upd replace those of d.
DictUpdate(d, upd) == upd @@ d

RECURSIVE SumOver(_, _)
SumOver(keys, d) ==
    IF keys = {} THEN 0
    ELSE LET k == CHOOSE x \in keys : TRUE
         IN d[k] + SumOver(keys \ {k}, d)

\* fit_loop's all_domain_result: every logged key that contains a domain name
\* adds its value under the key with the prefix "<domain>_" of the first such
\* domain removed (the inner loop breaks at the first match).
AllDomainResult(metrics, domains) ==
    LET hit(k) == {i \in 1..Len(domains) : IsSubstring(domains[i], k)}
        first(k) == CHOOSE i \in hit(k) : \A j \in hit(k) : i <= j
        target(k) == RemovePrefix(k, Concat(domains[first(k)], Underscore))
        srcs == {k \in DOMAIN metrics : hit(k) # {}}
    IN [t \in {target(k) : k \in srcs} |->
            SumOver({k \in srcs : target(k) = t}, metrics)]
----------------------------------------------------------------------------
(* The state after construction: BaseModel.__init__ has created the item   *)
(* embedding, MetaModel.__init__ has replaced it by None; no statement     *)
(* assigns fiid, so whether self has it is an input.                       *)

BaseConfigs ==
    [epochs : 0..MaxEpochs, nbatches : 1..MaxBatches,
     warmup_epoch : {0}, interval : {1}, descent_step : {0}]

MetaConfigs ==
    [epochs : 0..MaxEpochs, nbatches : 1..MaxBatches,
     warmup_epoch : 0..MaxWarmup, interval : 1..MaxInterval,
     descent_step : 0..MaxDescent]

\* A local that no statement has bound yet
Unbound == -1

\* The parameters of a sub-model _register_sub_model has just built
FreshParameters == -1

NoProxy == [base |-> 0, steps |-> 0, live |-> FALSE]

NegIdle == [pc |-> "idle"]
PoolIdle == [pc |-> "idle"]
TestIdle == [pc |-> "idle"]

\* What a model can hold when __init__ returns
ModelAttrs == {"item_embedding", "fiid", "forward", "training_step"}

\* The model as __init__ leaves it.  A BaseModel has its item embedding; it
\* is BaseModel itself, whose forward(self) takes no batch, or a subclass
\* with a forward(batch), or GRU4Rec, which overrides training_step as well.
\* A MetaModel has its forward(batch) and no item embedding, with or without
\* a fiid.  A MetaModel without fiid never reaches _outter_loop, so one
\* interval and one descent_step stand for all.
ConstructedModel ==
    \/ /\ cls = "BaseModel"
       /\ attrs \in {{"item_embedding"}, {"item_embedding", "forward"},
                      {"item_embedding", "forward", "training_step"}}
    \/ /\ cls = "MetaModel"
       /\ attrs = {"forward", "fiid"}
    \/ /\ cls = "MetaModel"
       /\ attrs = {"forward"}
       /\ config.interval = 1
       /\ config.descent_step = 0

\* Everything the constructor leaves the same way for every model
Constructed ==
    /\ pc = "constructed"
    /\ nepoch = Unbound
    /\ e = Unbound
    /\ batch_idx = 0
    /\ domain_idx = 0
    /\ logged_metrics = << >>
    /\ calls = << >>
    /\ ckpt_path = "None"
    /\ eval_domain = << <<>>, <<>> >>
    /\ interrupted = "none"
    /\ stop_training = FALSE
    /\ opt_steps = 0
    /\ last_step = "none"
    /\ step_counter = 0
    /\ proxy = NoProxy
    /\ outer_idx = 0
    /\ meta_steps = 0
    /\ metaloader_iter = 0
    /\ meta_batch = 0

Init ==
    /\ cls \in {"BaseModel", "MetaModel"}
    /\ config \in (IF cls = "BaseModel" THEN BaseConfigs ELSE MetaConfigs)
    /\ domain_name_list \in DomainLists
    /\ attrs \in SUBSET ModelAttrs
    /\ ConstructedModel
    /\ Constructed
    /\ neg = NegIdle
    /\ pool = PoolIdle
    /\ test = TestIdle

----------------------------------------------------------------------------
(* MetaModel._init_model and BaseModel.fit                                 *)

\* self._init_model(train_data), called on a MetaModel before fit(): the
\* sub-model is registered and its own _init_model called, which raises
\* AttributeError when its class has none (GRU4Rec has none); then
\* item_embedding, the meta module, the meta optimizer and metaloader_iter
\* are set
MetaInitModel ==
    /\ pc = "constructed"
    /\ cls = "MetaModel"
    /\ "item_embedding" \notin attrs
    /\ \E has_init_model \in BOOLEAN :
          IF has_init_model
          THEN /\ attrs' = attrs \cup {"item_embedding"}
               /\ metaloader_iter' = 0
               /\ pc' = "constructed"
          ELSE /\ pc' = "raised"
               /\ UNCHANGED <<attrs, metaloader_iter>>
    /\ UNCHANGED <<cls, config, domain_name_list, nepoch, e, batch_idx,
                   domain_idx, logged_metrics, calls, ckpt_path, eval_domain,
                   interrupted, stop_training, opt_steps, last_step,
                   step_counter, proxy, outer_idx, meta_steps, meta_batch,
                   neg, pool, test>>

\* fit(): the callback is created, init_model() dereferences
\* self.item_embedding.weight (AttributeError on None), fit_loop is entered
Fit ==
    /\ pc = "constructed"
    /\ pc' = IF "item_embedding" \in attrs THEN "fit_loop" ELSE "raised"
    /\ UNCHANGED <<cls, config, domain_name_list, attrs, nepoch, e, batch_idx,
                   domain_idx, logged_metrics, calls, ckpt_path, eval_domain,
                   interrupted, stop_training, opt_steps, last_step,
                   step_counter, proxy, outer_idx, meta_steps, metaloader_iter,
                   meta_batch, neg, pool, test>>

----------------------------------------------------------------------------
(* BaseModel.fit_loop, one action per statement                            *)

\* try: nepoch = 0
FitLoopEntry ==
    /\ pc = "fit_loop"
    /\ nepoch' = 0
    /\ pc' = "train_start"
    /\ UNCHANGED <<cls, config, domain_name_list, attrs, e, batch_idx,
                   domain_idx, logged_metrics, calls, ckpt_path, eval_domain,
                   interrupted, stop_training, opt_steps, last_step,
                   step_counter, proxy, outer_idx, meta_steps, metaloader_iter,
                   meta_batch, neg, pool, test>>

\* self.train_start()
TrainStart ==
    /\ pc = "train_start"
    /\ calls' = Append(calls, Call("train_start", 0))
    /\ pc' = "for"
    /\ UNCHANGED <<cls, config, domain_name_list, attrs, nepoch, e, batch_idx,
                   domain_idx, logged_metrics, ckpt_path, eval_domain,
                   interrupted, stop_training, opt_steps, last_step,
                   step_counter, proxy, outer_idx, meta_steps, metaloader_iter,
                   meta_batch, neg, pool, test>>

\* for e in range(self.config['epochs']): the next value, or the end
ForNext ==
    /\ pc = "for"
    /\ LET nxt == IF e = Unbound THEN 0 ELSE e + 1
       IN IF nxt < config.epochs
          THEN /\ e' = nxt
               /\ pc' = "reset_metrics"
          ELSE /\ pc' = "training_end"
               /\ UNCHANGED e
    /\ UNCHANGED <<cls, config, domain_name_list, attrs, nepoch, batch_idx,
                   domain_idx, logged_metrics, calls, ckpt_path, eval_domain,
                   interrupted, stop_training, opt_steps, last_step,
                   step_counter, proxy, outer_idx, meta_steps, metaloader_iter,
                   meta_batch, neg, pool, test>>

\* ResetLoggedMetrics without the new dict: the old one lives across epochs.
ResetKeepsMetrics ==
    /\ pc = "reset_metrics"
    /\ attrs' = attrs \cup {"logged_metrics"}
    /\ UNCHANGED logged_metrics
    /\ pc' = "log_epoch"
    /\ UNCHANGED <<cls, config, domain_name_list, nepoch, e, batch_idx,
                   domain_idx, calls, ckpt_path, eval_domain, interrupted,
                   stop_training, opt_steps, last_step, step_counter, proxy,
                   outer_idx, meta_steps, metaloader_iter, meta_batch, neg,
                   pool, test>>

\* self.logged_metrics = {}
ResetLoggedMetrics ==
    /\ pc = "reset_metrics"
    /\ attrs' = attrs \cup {"logged_metrics"}
    /\ logged_metrics' = << >>
    /\ pc' = "log_epoch"
    /\ UNCHANGED <<cls, config, domain_name_list, nepoch, e, batch_idx,
                   domain_idx, calls, ckpt_path, eval_domain, interrupted,
                   stop_training, opt_steps, last_step, step_counter, proxy,
                   outer_idx, meta_steps, metaloader_iter, meta_batch, neg,
                   pool, test>>

\* self.logged_metrics['epoch'] = nepoch
LogEpoch ==
    /\ pc = "log_epoch"
    /\ logged_metrics' = DictUpdate(logged_metrics, KeyEpoch :> nepoch)
    /\ pc' = "training_epoch"
    /\ UNCHANGED <<cls, config, domain_name_list, attrs, nepoch, e, batch_idx,
                   domain_idx, calls, ckpt_path, eval_domain, interrupted,
                   stop_training, opt_steps, last_step, step_counter, proxy,
                   outer_idx, meta_steps, metaloader_iter, meta_batch, neg,
                   pool, test>>

\* training_epoch: the loader of the epoch is created
TrainingEpochBegin ==
    /\ pc = "training_epoch"
    /\ batch_idx' = 0
    /\ pc' = "training_for"
    /\ UNCHANGED <<cls, config, domain_name_list, attrs, nepoch, e, domain_idx,
                   logged_metrics, calls, ckpt_path, eval_domain, interrupted,
                   stop_training, opt_steps, last_step, step_counter, proxy,
                   outer_idx, meta_steps, metaloader_iter, meta_batch, neg,
                   pool, test>>

\* for batch_idx, batch in enumerate(loader): the next batch; the negatives
\* are sampled and the gradients zeroed
TrainingForNext ==
    /\ pc = "training_for"
    /\ batch_idx < config.nbatches
    /\ batch_idx' = batch_idx + 1
    /\ pc' = "training_step"
    /\ UNCHANGED <<cls, config, domain_name_list, attrs, nepoch, e, domain_idx,
                   logged_metrics, calls, ckpt_path, eval_domain, interrupted,
                   stop_training, opt_steps, last_step, step_counter, proxy,
                   outer_idx, meta_steps, metaloader_iter, meta_batch, neg,
                   pool, test>>

\* BaseModel.training_step calls self.forward(batch): TypeError on
\* BaseModel.forward(self), which takes no batch.  GRU4Rec.training_step
\* passes three arguments to BaseModel.training_step(self, batch): TypeError.
BaseTrainingStepRaises ==
    "forward" \notin attrs \/ "training_step" \in attrs

\* topk's query = self.forward(batch) raises TypeError on
\* BaseModel.forward(self), which takes no batch
TopkForwardRaises == "forward" \notin attrs

\* BaseModel.training_epoch: loss = self.training_step(batch); loss.backward()
BaseTrainingStep ==
    /\ pc = "training_step"
    /\ cls = "BaseModel"
    /\ IF BaseTrainingStepRaises
       THEN /\ pc' = "raised"
            /\ UNCHANGED last_step
       ELSE /\ last_step' = "BaseModel.training_step"
            /\ pc' = "optimizer_step"
    /\ UNCHANGED <<cls, config, domain_name_list, attrs, nepoch, e, batch_idx,
                   domain_idx, logged_metrics, calls, ckpt_path, eval_domain,
                   interrupted, stop_training, opt_steps, step_counter, proxy,
                   outer_idx, meta_steps, metaloader_iter, meta_batch, neg,
                   pool, test>>

\* BaseModel.training_epoch: self.optimizer.step(); the loss is collected
BaseOptimizerStep ==
    /\ pc = "optimizer_step"
    /\ cls = "BaseModel"
    /\ opt_steps' = opt_steps + 1
    /\ pc' = "training_for"
    /\ UNCHANGED <<cls, config, domain_name_list, attrs, nepoch, e, batch_idx,
                   domain_idx, logged_metrics, calls, ckpt_path, eval_domain,
                   interrupted, stop_training, last_step, step_counter, proxy,
                   outer_idx, meta_steps, metaloader_iter, meta_batch, neg,
                   pool, test>>

\* training_epoch returns its output_list; self.eval() and the domain loop start
TrainingEpochReturn ==
    /\ pc = "training_for"
    /\ batch_idx >= config.nbatches
    /\ calls' = Append(calls, Call("training_epoch", nepoch))
    /\ domain_idx' = 1
    /\ pc' = IF Len(domain_name_list) >= 1 THEN "set_eval_domain_dataset"
             ELSE "all_domain_result"
    /\ UNCHANGED <<cls, config, domain_name_list, attrs, nepoch, e, batch_idx,
                   logged_metrics, ckpt_path, eval_domain, interrupted,
                   stop_training, opt_steps, last_step, step_counter, proxy,
                   outer_idx, meta_steps, metaloader_iter, meta_batch, neg,
                   pool, test>>

\* val_dataset.set_eval_domain(domain)
SetEvalDomainDataset ==
    /\ pc = "set_eval_domain_dataset"
    /\ eval_domain' = <<domain_name_list[domain_idx], eval_domain[2]>>
    /\ calls' = Append(calls, Call("val_dataset.set_eval_domain", domain_idx))
    /\ pc' = "set_eval_domain"
    /\ UNCHANGED <<cls, config, domain_name_list, attrs, nepoch, e, batch_idx,
                   domain_idx, logged_metrics, ckpt_path, interrupted,
                   stop_training, opt_steps, last_step, step_counter, proxy,
                   outer_idx, meta_steps, metaloader_iter, meta_batch, neg,
                   pool, test>>

\* self.set_eval_domain(domain)
SetEvalDomain ==
    /\ pc = "set_eval_domain"
    /\ eval_domain' = <<eval_domain[1], domain_name_list[domain_idx]>>
    /\ calls' = Append(calls, Call("set_eval_domain", domain_idx))
    /\ pc' = "validation_epoch"
    /\ UNCHANGED <<cls, config, domain_name_list, attrs, nepoch, e, batch_idx,
                   domain_idx, logged_metrics, ckpt_path, interrupted,
                   stop_training, opt_steps, last_step, step_counter, proxy,
                   outer_idx, meta_steps, metaloader_iter, meta_batch, neg,
                   pool, test>>

\* self.validation_epoch(nepoch, val_dataset.get_loader()); validation_step
\* calls topk on every batch
ValidationEpoch ==
    /\ pc = "validation_epoch"
    /\ IF TopkForwardRaises
       THEN /\ pc' = "raised"
            /\ UNCHANGED calls
       ELSE /\ calls' = Append(calls, Call("validation_epoch", domain_idx))
            /\ pc' = "validation_epoch_end"
    /\ UNCHANGED <<cls, config, domain_name_list, attrs, nepoch, e, batch_idx,
                   domain_idx, logged_metrics, ckpt_path, eval_domain,
                   interrupted, stop_training, opt_steps, last_step,
                   step_counter, proxy, outer_idx, meta_steps, metaloader_iter,
                   meta_batch, neg, pool, test>>

\* self.validation_epoch_end(validation_output_list, domain): the metrics of
\* the domain are logged under domain + '_' + name
ValidationEpochEnd ==
    /\ pc = "validation_epoch_end"
    /\ \E out \in [ValMetricNames -> MetricValues] :
          LET d == domain_name_list[domain_idx]
              keyed == [k \in {Concat(Concat(d, Underscore), m) : m \in ValMetricNames}
                          |-> out[RemovePrefix(k, Concat(d, Underscore))]]
          IN logged_metrics' = DictUpdate(logged_metrics, keyed)
    /\ pc' = "validation_epoch_end_return"
    /\ UNCHANGED <<cls, config, domain_name_list, attrs, nepoch, e, batch_idx,
                   domain_idx, calls, ckpt_path, eval_domain, interrupted,
                   stop_training, opt_steps, last_step, step_counter, proxy,
                   outer_idx, meta_steps, metaloader_iter, meta_batch, neg,
                   pool, test>>

\* validation_epoch_end returns; for domain in self.domain_name_list: the next
\* domain, or the end
ValidationEpochEndReturn ==
    /\ pc = "validation_epoch_end_return"
    /\ calls' = Append(calls, Call("validation_epoch_end", domain_idx))
    /\ IF domain_idx < Len(domain_name_list)
       THEN /\ domain_idx' = domain_idx + 1
            /\ pc' = "set_eval_domain_dataset"
       ELSE /\ pc' = "all_domain_result"
            /\ UNCHANGED domain_idx
    /\ UNCHANGED <<cls, config, domain_name_list, attrs, nepoch, e, batch_idx,
                   logged_metrics, ckpt_path, eval_domain, interrupted,
                   stop_training, opt_steps, last_step, step_counter, proxy,
                   outer_idx, meta_steps, metaloader_iter, meta_batch, neg,
                   pool, test>>

\* all_domain_result is summed and merged into logged_metrics
AllDomainAggregation ==
    /\ pc = "all_domain_result"
    /\ logged_metrics' =
          DictUpdate(logged_metrics, AllDomainResult(logged_metrics, domain_name_list))
    /\ calls' = Append(calls, Call("all_domain_result", nepoch))
    /\ pc' = "training_epoch_end"
    /\ UNCHANGED <<cls, config, domain_name_list, attrs, nepoch, e, batch_idx,
                   domain_idx, ckpt_path, eval_domain, interrupted,
                   stop_training, opt_steps, last_step, step_counter, proxy,
                   outer_idx, meta_steps, metaloader_iter, meta_batch, neg,
                   pool, test>>

\* self.training_epoch_end(training_output_list): the training loss is logged
TrainingEpochEnd ==
    /\ pc = "training_epoch_end"
    /\ \E loss \in MetricValues :
          logged_metrics' = DictUpdate(logged_metrics, KeyTrainLoss :> loss)
    /\ pc' = "training_epoch_end_return"
    /\ UNCHANGED <<cls, config, domain_name_list, attrs, nepoch, e, batch_idx,
                   domain_idx, calls, ckpt_path, eval_domain, interrupted,
                   stop_training, opt_steps, last_step, step_counter, proxy,
                   outer_idx, meta_steps, metaloader_iter, meta_batch, neg,
                   pool, test>>

\* training_epoch_end writes logged_metrics to the log and returns
TrainingEpochEndReturn ==
    /\ pc = "training_epoch_end_return"
    /\ calls' = Append(calls, Call("training_epoch_end", nepoch))
    /\ pc' = "callback"
    /\ UNCHANGED <<cls, config, domain_name_list, attrs, nepoch, e, batch_idx,
                   domain_idx, logged_metrics, ckpt_path, eval_domain,
                   interrupted, stop_training, opt_steps, last_step,
                   step_counter, proxy, outer_idx, meta_steps, metaloader_iter,
                   meta_batch, neg, pool, test>>

\* Callback with `nepoch += 1` run before `if stop_training: break`.
CallbackCountsStoppedEpoch ==
    /\ pc = "callback"
    /\ calls' = Append(calls, Call("callback", nepoch))
    /\ \E stop \in BOOLEAN :
          /\ stop_training' = stop
          /\ nepoch' = nepoch + 1
          /\ pc' = IF stop THEN "training_end" ELSE "for"
    /\ UNCHANGED <<cls, config, domain_name_list, attrs, e, batch_idx,
                   domain_idx, logged_metrics, ckpt_path, eval_domain,
                   interrupted, opt_steps, last_step, step_counter, proxy,
                   outer_idx, meta_steps, metaloader_iter, meta_batch, neg,
                   pool, test>>

\* stop_training = self.callback(self, nepoch, self.logged_metrics);
\* if stop_training: break
Callback ==
    /\ pc = "callback"
    /\ calls' = Append(calls, Call("callback", nepoch))
    /\ \E stop \in BOOLEAN :
          /\ stop_training' = stop
          /\ pc' = IF stop THEN "training_end" ELSE "nepoch_inc"
    /\ UNCHANGED nepoch
    /\ UNCHANGED <<cls, config, domain_name_list, attrs, e, batch_idx,
                   domain_idx, logged_metrics, ckpt_path, eval_domain,
                   interrupted, opt_steps, last_step, step_counter, proxy,
                   outer_idx, meta_steps, metaloader_iter, meta_batch, neg,
                   pool, test>>

\* nepoch += 1
NepochIncrement ==
    /\ pc = "nepoch_inc"
    /\ nepoch' = nepoch + 1
    /\ pc' = "for"
    /\ UNCHANGED <<cls, config, domain_name_list, attrs, e, batch_idx,
                   domain_idx, logged_metrics, calls, ckpt_path, eval_domain,
                   interrupted, stop_training, opt_steps, last_step,
                   step_counter, proxy, outer_idx, meta_steps, metaloader_iter,
                   meta_batch, neg, pool, test>>

\* self.training_end()
TrainingEnd ==
    /\ pc = "training_end"
    /\ calls' = Append(calls, Call("training_end", 0))
    /\ pc' = "save_checkpoint"
    /\ UNCHANGED <<cls, config, domain_name_list, attrs, nepoch, e, batch_idx,
                   domain_idx, logged_metrics, ckpt_path, eval_domain,
                   interrupted, stop_training, opt_steps, last_step,
                   step_counter, proxy, outer_idx, meta_steps, metaloader_iter,
                   meta_batch, neg, pool, test>>

\* self.callback.save_checkpoint(nepoch)
SaveCheckpoint ==
    /\ pc = "save_checkpoint"
    /\ calls' = Append(calls, Call("save_checkpoint", nepoch))
    /\ pc' = "get_checkpoint_path"
    /\ UNCHANGED <<cls, config, domain_name_list, attrs, nepoch, e, batch_idx,
                   domain_idx, logged_metrics, ckpt_path, eval_domain,
                   interrupted, stop_training, opt_steps, last_step,
                   step_counter, proxy, outer_idx, meta_steps, metaloader_iter,
                   meta_batch, neg, pool, test>>

\* self.ckpt_path = self.callback.get_checkpoint_path(), the last statement of
\* the try block
GetCheckpointPath ==
    /\ pc = "get_checkpoint_path"
    /\ ckpt_path' = CkptPath
    /\ pc' = "return"
    /\ UNCHANGED <<cls, config, domain_name_list, attrs, nepoch, e, batch_idx,
                   domain_idx, logged_metrics, calls, eval_domain, interrupted,
                   stop_training, opt_steps, last_step, step_counter, proxy,
                   outer_idx, meta_steps, metaloader_iter, meta_batch, neg,
                   pool, test>>

\* InTry with the validation procedure left outside the try block.
InTryTrainingOnly(p) ==
    p \in {"fit_loop", "train_start", "for", "reset_metrics", "log_epoch",
           "training_epoch", "training_for", "training_step", "optimizer_step",
           "step_counter", "outter_loop", "outter_load", "outter_proxy",
           "outter_next", "outter_except", "outter_except_next",
           "outter_meta", "training_epoch_end",
           "training_epoch_end_return", "callback", "nepoch_inc",
           "training_end", "save_checkpoint", "get_checkpoint_path"}

\* The statements between `try:` and `except KeyboardInterrupt:`.
InTry(p) ==
    p \in {"fit_loop", "train_start", "for", "reset_metrics", "log_epoch",
           "training_epoch", "training_for", "training_step", "optimizer_step",
           "step_counter", "outter_loop", "outter_load", "outter_proxy",
           "outter_next", "outter_except", "outter_except_next",
           "outter_meta", "set_eval_domain_dataset",
           "set_eval_domain", "validation_epoch", "validation_epoch_end",
           "validation_epoch_end_return", "all_domain_result",
           "training_epoch_end", "training_epoch_end_return", "callback",
           "nepoch_inc", "training_end", "save_checkpoint",
           "get_checkpoint_path"}

\* The statements of fit_loop after the try block: the handler and the return
AfterTry == {"except", "except_get_checkpoint_path", "return"}

\* A KeyboardInterrupt is raised before the statement at pc has had an effect.
KeyboardInterrupt ==
    /\ pc \notin ({"constructed", "returned", "raised"} \cup AfterTry)
    /\ interrupted' = pc
    /\ pc' = IF InTry(pc) THEN "except" ELSE "raised"
    /\ UNCHANGED <<cls, config, domain_name_list, attrs, nepoch, e, batch_idx,
                   domain_idx, logged_metrics, calls, ckpt_path, eval_domain,
                   stop_training, opt_steps, last_step, step_counter, proxy,
                   outer_idx, meta_steps, metaloader_iter, meta_batch, neg,
                   pool, test>>

\* except KeyboardInterrupt: self.callback.save_checkpoint(nepoch), which
\* raises UnboundLocalError when the interrupt came before `nepoch = 0`
ExceptKeyboardInterrupt ==
    /\ pc = "except"
    /\ IF nepoch = Unbound
       THEN /\ pc' = "raised"
            /\ UNCHANGED calls
       ELSE /\ calls' = Append(calls, Call("save_checkpoint", nepoch))
            /\ pc' = "except_get_checkpoint_path"
    /\ UNCHANGED <<cls, config, domain_name_list, attrs, nepoch, e, batch_idx,
                   domain_idx, logged_metrics, ckpt_path, eval_domain,
                   interrupted, stop_training, opt_steps, last_step,
                   step_counter, proxy, outer_idx, meta_steps, metaloader_iter,
                   meta_batch, neg, pool, test>>

\* the handler's self.ckpt_path = self.callback.get_checkpoint_path()
ExceptGetCheckpointPath ==
    /\ pc = "except_get_checkpoint_path"
    /\ ckpt_path' = CkptPath
    /\ pc' = "return"
    /\ UNCHANGED <<cls, config, domain_name_list, attrs, nepoch, e, batch_idx,
                   domain_idx, logged_metrics, calls, eval_domain, interrupted,
                   stop_training, opt_steps, last_step, step_counter, proxy,
                   outer_idx, meta_steps, metaloader_iter, meta_batch, neg,
                   pool, test>>

\* return
Return ==
    /\ pc = "return"
    /\ pc' = "returned"
    /\ UNCHANGED <<cls, config, domain_name_list, attrs, nepoch, e, batch_idx,
                   domain_idx, logged_metrics, calls, ckpt_path, eval_domain,
                   interrupted, stop_training, opt_steps, last_step,
                   step_counter, proxy, outer_idx, meta_steps, metaloader_iter,
                   meta_batch, neg, pool, test>>

\* A KeyboardInterrupt raised inside the handler or at the return, where no
\* try block is open, leaves fit_loop.
InterruptInHandler ==
    /\ pc \in AfterTry
    /\ interrupted' = IF interrupted = "none" THEN pc ELSE interrupted
    /\ pc' = "raised"
    /\ UNCHANGED <<cls, config, domain_name_list, attrs, nepoch, e, batch_idx,
                   domain_idx, logged_metrics, calls, ckpt_path, eval_domain,
                   stop_training, opt_steps, last_step, step_counter, proxy,
                   outer_idx, meta_steps, metaloader_iter, meta_batch, neg,
                   pool, test>>

----------------------------------------------------------------------------
(* MetaModel.training_epoch and MetaModel._outter_loop                     *)

\* PastWarmup with >= for >: the warm-up ends one epoch early.
PastWarmupInclusive(n) == n >= config.warmup_epoch

\* nepoch > self.config['train']['warmup_epoch']
PastWarmup(n) == n > config.warmup_epoch

\* self.step_counter % interval == 0 and nepoch > warmup_epoch
OutterLoopDue(n, counter) ==
    counter % config.interval = 0 /\ PastWarmup(n)

\* MetaModel.training_step reads self.fiid: AttributeError without it
TrainingStepRaises == "fiid" \notin attrs

\* MetaModel.training_epoch: the weighted MetaModel.training_step after the
\* warm-up, the sub-model's own training_step before; loss.backward()
MetaTrainingStep ==
    /\ pc = "training_step"
    /\ cls = "MetaModel"
    /\ IF PastWarmup(nepoch)
       THEN IF TrainingStepRaises
            THEN /\ pc' = "raised"
                 /\ UNCHANGED last_step
            ELSE /\ last_step' = "MetaModel.training_step"
                 /\ pc' = "optimizer_step"
       ELSE /\ last_step' = "sub_model.training_step"
            /\ pc' = "optimizer_step"
    /\ UNCHANGED <<cls, config, domain_name_list, attrs, nepoch, e, batch_idx,
                   domain_idx, logged_metrics, calls, ckpt_path, eval_domain,
                   interrupted, stop_training, opt_steps, step_counter, proxy,
                   outer_idx, meta_steps, metaloader_iter, meta_batch, neg,
                   pool, test>>

\* self.sub_model.optimizer.step(); the loss is collected
MetaOptimizerStep ==
    /\ pc = "optimizer_step"
    /\ cls = "MetaModel"
    /\ opt_steps' = opt_steps + 1
    /\ pc' = "step_counter"
    /\ UNCHANGED <<cls, config, domain_name_list, attrs, nepoch, e, batch_idx,
                   domain_idx, logged_metrics, calls, ckpt_path, eval_domain,
                   interrupted, stop_training, last_step, step_counter, proxy,
                   outer_idx, meta_steps, metaloader_iter, meta_batch, neg,
                   pool, test>>

\* self.step_counter += 1; the outer loop is called when due
MetaStepCounter ==
    /\ pc = "step_counter"
    /\ step_counter' = step_counter + 1
    /\ pc' = IF OutterLoopDue(nepoch, step_counter + 1) THEN "outter_loop"
             ELSE "training_for"
    /\ UNCHANGED <<cls, config, domain_name_list, attrs, nepoch, e, batch_idx,
                   domain_idx, logged_metrics, calls, ckpt_path, eval_domain,
                   interrupted, stop_training, opt_steps, last_step, proxy,
                   outer_idx, meta_steps, metaloader_iter, meta_batch, neg,
                   pool, test>>

\* _outter_loop: assert descent_step < len(meta_dataloader); the proxy model
\* is registered and initialised
OutterLoopBegin ==
    /\ pc = "outter_loop"
    /\ IF config.descent_step < config.nbatches
       THEN /\ proxy' = [base |-> FreshParameters, steps |-> 0, live |-> TRUE]
            /\ outer_idx' = 0
            /\ pc' = "outter_load"
       ELSE /\ pc' = "raised"
            /\ UNCHANGED <<proxy, outer_idx>>
    /\ UNCHANGED <<cls, config, domain_name_list, attrs, nepoch, e, batch_idx,
                   domain_idx, logged_metrics, calls, ckpt_path, eval_domain,
                   interrupted, stop_training, opt_steps, last_step,
                   step_counter, meta_steps, metaloader_iter, meta_batch, neg,
                   pool, test>>

\* proxy_model.load_state_dict(self.sub_model.state_dict())
OutterLoadState ==
    /\ pc = "outter_load"
    /\ proxy' = [proxy EXCEPT !.base = opt_steps]
    /\ pc' = "outter_proxy"
    /\ UNCHANGED <<cls, config, domain_name_list, attrs, nepoch, e, batch_idx,
                   domain_idx, logged_metrics, calls, ckpt_path, eval_domain,
                   interrupted, stop_training, opt_steps, last_step,
                   step_counter, outer_idx, meta_steps, metaloader_iter,
                   meta_batch, neg, pool, test>>

\* ProxyLoopBreaks with > for >=: one descent step too many.
ProxyLoopBreaksLate(idx) == idx > config.descent_step

\* if batch_idx >= self.config['train']['descent_step']: break
ProxyLoopBreaks(idx) == idx >= config.descent_step

\* for batch_idx, batch in enumerate(loader): one iteration (the proxy's
\* training_step and optimizer step), the break or the end of the loader
OutterProxyStep ==
    /\ pc = "outter_proxy"
    /\ IF outer_idx < config.nbatches /\ ~ProxyLoopBreaks(outer_idx)
       THEN IF TrainingStepRaises
            THEN /\ pc' = "raised"
                 /\ UNCHANGED <<proxy, outer_idx>>
            ELSE /\ proxy' = [proxy EXCEPT !.steps = @ + 1]
                 /\ outer_idx' = outer_idx + 1
                 /\ UNCHANGED pc
       ELSE /\ pc' = "outter_next"
            /\ UNCHANGED <<proxy, outer_idx>>
    /\ UNCHANGED <<cls, config, domain_name_list, attrs, nepoch, e, batch_idx,
                   domain_idx, logged_metrics, calls, ckpt_path, eval_domain,
                   interrupted, stop_training, opt_steps, last_step,
                   step_counter, meta_steps, metaloader_iter, meta_batch, neg,
                   pool, test>>

\* NextMetaBatch as next(iter(loader)): a fresh iterator at every call.
NextMetaBatchFresh(it) == <<0, 1>>

\* next(it) on an iterator with batches left: <<batch, iterator>>
NextMetaBatch(it) == <<it, it + 1>>

\* next(it) raises StopIteration: the iterator has yielded every batch
StopIteration(it) == it >= config.nbatches

\* try: batch = next(self.metaloader_iter); StopIteration enters the handler
OutterNextBatch ==
    /\ pc = "outter_next"
    /\ IF StopIteration(metaloader_iter)
       THEN /\ pc' = "outter_except"
            /\ UNCHANGED <<meta_batch, metaloader_iter>>
       ELSE /\ meta_batch' = NextMetaBatch(metaloader_iter)[1]
            /\ metaloader_iter' = NextMetaBatch(metaloader_iter)[2]
            /\ pc' = "outter_meta"
    /\ UNCHANGED <<cls, config, domain_name_list, attrs, nepoch, e, batch_idx,
                   domain_idx, logged_metrics, calls, ckpt_path, eval_domain,
                   interrupted, stop_training, opt_steps, last_step,
                   step_counter, proxy, outer_idx, meta_steps, neg, pool, test>>

\* except StopIteration: self.metaloader_iter = iter(the meta loader)
OutterNewIterator ==
    /\ pc = "outter_except"
    /\ metaloader_iter' = 0
    /\ pc' = "outter_except_next"
    /\ UNCHANGED <<cls, config, domain_name_list, attrs, nepoch, e, batch_idx,
                   domain_idx, logged_metrics, calls, ckpt_path, eval_domain,
                   interrupted, stop_training, opt_steps, last_step,
                   step_counter, proxy, outer_idx, meta_steps, meta_batch, neg,
                   pool, test>>

\* the handler's batch = next(self.metaloader_iter); the loader is not empty
\* (the assert of _outter_loop)
OutterExceptNextBatch ==
    /\ pc = "outter_except_next"
    /\ meta_batch' = NextMetaBatch(metaloader_iter)[1]
    /\ metaloader_iter' = NextMetaBatch(metaloader_iter)[2]
    /\ pc' = "outter_meta"
    /\ UNCHANGED <<cls, config, domain_name_list, attrs, nepoch, e, batch_idx,
                   domain_idx, logged_metrics, calls, ckpt_path, eval_domain,
                   interrupted, stop_training, opt_steps, last_step,
                   step_counter, proxy, outer_idx, meta_steps, neg, pool, test>>

\* the meta loss, the train loss and meta_optimizer.step; _outter_loop returns
OutterMetaStep ==
    /\ pc = "outter_meta"
    /\ IF TrainingStepRaises
       THEN /\ pc' = "raised"
            /\ UNCHANGED meta_steps
       ELSE /\ meta_steps' = meta_steps + 1
            /\ pc' = "training_for"
    /\ UNCHANGED <<cls, config, domain_name_list, attrs, nepoch, e, batch_idx,
                   domain_idx, logged_metrics, calls, ckpt_path, eval_domain,
                   interrupted, stop_training, opt_steps, last_step,
                   step_counter, proxy, outer_idx, metaloader_iter, meta_batch,
                   neg, pool, test>>

----------------------------------------------------------------------------
Next ==
    \/ MetaInitModel
    \/ Fit
    \/ FitLoopEntry
    \/ TrainStart
    \/ ForNext
    \/ ResetLoggedMetrics
    \/ LogEpoch
    \/ TrainingEpochBegin
    \/ TrainingForNext
    \/ BaseTrainingStep
    \/ BaseOptimizerStep
    \/ MetaTrainingStep
    \/ MetaOptimizerStep
    \/ MetaStepCounter
    \/ OutterLoopBegin
    \/ OutterLoadState
    \/ OutterProxyStep
    \/ OutterNextBatch
    \/ OutterNewIterator
    \/ OutterExceptNextBatch
    \/ OutterMetaStep
    \/ TrainingEpochReturn
    \/ SetEvalDomainDataset
    \/ SetEvalDomain
    \/ ValidationEpoch
    \/ ValidationEpochEnd
    \/ ValidationEpochEndReturn
    \/ AllDomainAggregation
    \/ TrainingEpochEnd
    \/ TrainingEpochEndReturn
    \/ Callback
    \/ NepochIncrement
    \/ TrainingEnd
    \/ SaveCheckpoint
    \/ GetCheckpointPath
    \/ Return
    \/ KeyboardInterrupt
    \/ ExceptKeyboardInterrupt
    \/ ExceptGetCheckpointPath
    \/ InterruptInHandler

Spec == Init /\ [][Next]_vars

----------------------------------------------------------------------------
(* MetaModel trained for more epochs on short loaders (SpecMeta), so that   *)
(* the outer loop runs more often than the meta loader has batches.         *)

MaxMetaEpochs == 3
MaxMetaBatches == 2

LongMetaConfigs ==
    [epochs : 0..MaxMetaEpochs, nbatches : 1..MaxMetaBatches,
     warmup_epoch : {0}, interval : 1..MaxInterval,
     descent_step : 0..MaxDescent]

InitMeta ==
    /\ cls = "MetaModel"
    /\ config \in LongMetaConfigs
    /\ domain_name_list \in DomainLists
    /\ attrs \in SUBSET ModelAttrs
    /\ ConstructedModel
    /\ Constructed
    /\ neg = NegIdle
    /\ pool = PoolIdle
    /\ test = TestIdle

NextMeta ==
    \/ MetaInitModel
    \/ Fit
    \/ FitLoopEntry
    \/ TrainStart
    \/ ForNext
    \/ ResetLoggedMetrics
    \/ LogEpoch
    \/ TrainingEpochBegin
    \/ TrainingForNext
    \/ MetaTrainingStep
    \/ MetaOptimizerStep
    \/ MetaStepCounter
    \/ OutterLoopBegin
    \/ OutterLoadState
    \/ OutterProxyStep
    \/ OutterNextBatch
    \/ OutterNewIterator
    \/ OutterExceptNextBatch
    \/ OutterMetaStep
    \/ TrainingEpochReturn
    \/ SetEvalDomainDataset
    \/ SetEvalDomain
    \/ ValidationEpoch
    \/ ValidationEpochEnd
    \/ ValidationEpochEndReturn
    \/ AllDomainAggregation
    \/ TrainingEpochEnd
    \/ TrainingEpochEndReturn
    \/ Callback
    \/ NepochIncrement
    \/ TrainingEnd
    \/ SaveCheckpoint
    \/ GetCheckpointPath
    \/ Return
    \/ KeyboardInterrupt
    \/ ExceptKeyboardInterrupt
    \/ ExceptGetCheckpointPath
    \/ InterruptInHandler

SpecMeta == InitMeta /\ [][NextMeta]_vars


----------------------------------------------------------------------------
(* BaseModel._neg_sampling and the batch BaseModel.training_step scores    *)
(* (SpecNeg).  A batch row is a user's interaction sequence s_1..s_n of     *)
(* real items: user_seq holds s_1..s_(n-1) and target_item s_2..s_n, both   *)
(* right-padded with the padding id 0 to max_seq_len.                      *)

NumItems == 4
MaxBatchSize == 2
MaxSeqLen == 2
MaxNeg == 2
MaxCells == 4

\* BaseModel itself, whose forward(self) takes no batch, and a subclass that
\* defines forward(batch) and keeps BaseModel's other methods
BaseModelItself == {"item_embedding"}
SubclassWithForward == {"item_embedding", "forward"}

\* The state of the trainer, but for the class of self, while one of its
\* methods is explored on its own.
TrainerIdle ==
    /\ cls = "BaseModel"
    /\ config = [epochs |-> 0, nbatches |-> 1, warmup_epoch |-> 0,
                 interval |-> 1, descent_step |-> 0]
    /\ domain_name_list \in DomainLists
    /\ pc = "idle"
    /\ nepoch = Unbound
    /\ e = Unbound
    /\ batch_idx = 0
    /\ domain_idx = 0
    /\ logged_metrics = << >>
    /\ calls = << >>
    /\ ckpt_path = "None"
    /\ eval_domain = << <<>>, <<>> >>
    /\ interrupted = "none"
    /\ stop_training = FALSE
    /\ opt_steps = 0
    /\ last_step = "none"
    /\ step_counter = 0
    /\ proxy = NoProxy
    /\ outer_idx = 0
    /\ meta_steps = 0
    /\ metaloader_iter = 0
    /\ meta_batch = 0

PadRight(s, len) == [j \in 1..len |-> IF j <= Len(s) THEN s[j] ELSE 0]

\* The interaction sequences that fit a row of width len.
Interactions(num_items, len) ==
    UNION {[1..n -> 1..(num_items - 1)] : n \in 2..(len + 1)}

Range(f) == {f[x] : x \in DOMAIN f}

\* weight[:, 0] = 0 left out: the padding id stays eligible.
InitialWeightKeepsPadding(user_seq, num_items) ==
    [b \in DOMAIN user_seq |->
        [i \in 0..(num_items - 1) |->
            IF i \in Range(user_seq[b]) THEN 0 ELSE 1]]

\* weight = ones(B, num_items); weight[_idx, user_seq] = 0; weight[:, 0] = 0
SamplingWeight(user_seq, num_items) ==
    [b \in DOMAIN user_seq |->
        [i \in 0..(num_items - 1) |->
            IF i = 0 \/ i \in Range(user_seq[b]) THEN 0 ELSE 1]]

\* torch.multinomial(weight, n, replacement=True): every draw of a row is an
\* index of positive weight; no outcome when a row has none (RuntimeError).
Multinomial(weight, n) ==
    {draws \in [DOMAIN weight -> [1..n -> UNION {DOMAIN weight[b] : b \in DOMAIN weight}]] :
        \A b \in DOMAIN weight : \A j \in 1..n : weight[b][draws[b][j]] > 0}

\* neg_idx.reshape(B, max_seq_len, num_neg), row-major
Reshape3(flat, len, k) ==
    [b \in DOMAIN flat |->
        [l \in 1..len |-> [n \in 1..k |-> flat[b][(l - 1) * k + n]]]]

InitNeg ==
    /\ TrainerIdle
    /\ attrs \in {BaseModelItself, SubclassWithForward}
    /\ pool = PoolIdle
    /\ test = TestIdle
    /\ \E N \in 3..NumItems, B \in 1..MaxBatchSize, L \in 1..MaxSeqLen,
          K \in 1..MaxNeg :
          /\ B * L * K <= MaxCells
          /\ \E rows \in [1..B -> Interactions(N, L)] :
                neg = [pc |-> "batch",
                       num_items |-> N,
                       max_seq_len |-> L,
                       num_neg |-> K,
                       user_seq |->
                          [b \in 1..B |->
                              PadRight(SubSeq(rows[b], 1, Len(rows[b]) - 1), L)],
                       target_item |->
                          [b \in 1..B |->
                              PadRight(SubSeq(rows[b], 2, Len(rows[b])), L)],
                       neg_item |-> << >>,
                       scored |-> {}]

\* batch['neg_item'] = self._neg_sampling(batch)
NegSampling ==
    /\ neg.pc = "batch"
    /\ LET weight == SamplingWeight(neg.user_seq, neg.num_items)
           outcomes == Multinomial(weight, neg.num_neg * neg.max_seq_len)
       IN IF outcomes = {}
          THEN neg' = [neg EXCEPT !.pc = "raised"]
          ELSE \E draws \in outcomes :
                  neg' = [neg EXCEPT
                             !.pc = "sampled",
                             !.neg_item = Reshape3(draws, neg.max_seq_len,
                                                   neg.num_neg)]
    /\ UNCHANGED <<trainerVars, pool, test>>

\* loss = self.training_step(batch): query = self.forward(batch) raises
\* TypeError on BaseModel.forward(self) and nothing is scored; else pos_score
\* of target_item[b][l] against neg_score of neg_item[b][l][k]; the positive
\* score of a padding target is -inf
TrainingStep ==
    /\ neg.pc = "sampled"
    /\ IF BaseTrainingStepRaises
       THEN neg' = [neg EXCEPT !.pc = "raised"]
       ELSE neg' = [neg EXCEPT
                       !.pc = "scored",
                       !.scored =
                          {[b |-> b, l |-> l, pos |-> neg.target_item[b][l],
                            neg |-> neg.neg_item[b][l][k]] :
                             b \in DOMAIN neg.neg_item,
                             l \in 1..neg.max_seq_len,
                             k \in 1..neg.num_neg}]
    /\ UNCHANGED <<trainerVars, pool, test>>

NextNeg ==
    \/ NegSampling
    \/ TrainingStep

SpecNeg == InitNeg /\ [][NextNeg]_vars

----------------------------------------------------------------------------
(* SeqPoolingLayer.forward (SpecPool).  A tensor is a nested sequence; a    *)
(* float is an integer, and a quotient is the fraction in lowest terms.     *)

MaxRows == 2
MaxLen == 2
MaxDim == 2
MaxPoolCells == 4
MaxVal == 1

\* 1 / torch.finfo(torch.float32).eps = 2^23
Float32EpsInv == 8388608

None == << >>

PoolingTypes == {"origin", "mask", "concat", "sum", "mean", "max", "last"}

Layers == [pooling_type : PoolingTypes, keepdim : BOOLEAN]

\* GRU4Rec's two pooling layers
TrainingPoolingLayer == [pooling_type |-> "origin", keepdim |-> FALSE]
EvalPoolingLayer == [pooling_type |-> "last", keepdim |-> FALSE]

\* GRU4Rec.forward with need_pooling: the layer chosen by self.training
GRU4RecPoolingLayer(training) ==
    IF training THEN TrainingPoolingLayer ELSE EvalPoolingLayer

Abs(x) == IF x < 0 THEN -x ELSE x

RECURSIVE Gcd(_, _)
Gcd(a, b) == IF b = 0 THEN a ELSE Gcd(b, a % b)

\* num / den, den > 0
Frac(num, den) ==
    LET g == Gcd(Abs(num), den)
    IN [num |-> num \div g, den |-> den \div g]

\* x.view(-1, *x.shape[2:]) of [B, Neg, ...]
Flatten(x) ==
    LET B == Len(x)
        Neg == Len(x[1])
    IN [r \in 1..(B * Neg) |-> x[((r - 1) \div Neg) + 1][((r - 1) % Neg) + 1]]

\* result.reshape(B, N // B, *result.shape[1:]) of a tensor with N rows
Unflatten(x, B, N) ==
    [b \in 1..B |-> [n \in 1..(N \div B) |-> x[(b - 1) * (N \div B) + n]]]

\* weight.unsqueeze(-1) * batch_seq_embeddings
ApplyWeight(emb, weight) ==
    [n \in DOMAIN emb |-> [l \in DOMAIN emb[n] |->
        [d \in DOMAIN emb[n][l] |-> weight[n][l] * emb[n][l][d]]]]

\* masked_fill left out: the padded positions keep their values.
NoMaskedFill(emb, seq_len) == emb

\* mask = arange(L) >= seq_len; batch_seq_embeddings.masked_fill(mask, 0.0)
MaskedFill(emb, seq_len) ==
    [n \in DOMAIN emb |-> [l \in DOMAIN emb[n] |->
        [d \in DOMAIN emb[n][l] |->
            IF (l - 1) >= seq_len[n] THEN 0 ELSE emb[n][l][d]]]]

RECURSIVE SumTo(_, _)
SumTo(f, l) == IF l = 0 THEN 0 ELSE f[l] + SumTo(f, l - 1)

\* x.sum(dim=1): over all L positions
SumDim1(x) ==
    [n \in DOMAIN x |-> [d \in DOMAIN x[n][1] |->
        SumTo([l \in DOMAIN x[n] |-> x[n][l][d]], Len(x[n]))]]

\* x.max(dim=1): (values, indices), the index of the first maximal value
MaxDim1(x) ==
    LET col(n, d) == [l \in DOMAIN x[n] |-> x[n][l][d]]
        top(c) == CHOOSE v \in Range(c) : \A w \in Range(c) : w <= v
        arg(c) == CHOOSE l \in DOMAIN c :
                     c[l] = top(c) /\ \A j \in DOMAIN c : c[j] = top(c) => l <= j
    IN [values |-> [n \in DOMAIN x |-> [d \in DOMAIN x[n][1] |-> top(col(n, d))]],
        indices |-> [n \in DOMAIN x |-> [d \in DOMAIN x[n][1] |-> arg(col(n, d)) - 1]]]

\* x.reshape(N, -1)
ConcatRows(x) ==
    [n \in DOMAIN x |->
        [j \in 1..(Len(x[n]) * Len(x[n][1])) |->
            x[n][((j - 1) \div Len(x[n][1])) + 1][((j - 1) % Len(x[n][1])) + 1]]]

\* x.unsqueeze(1)
Unsqueeze1(x) == [n \in DOMAIN x |-> <<x[n]>>]

\* seq_len + eps in float32: 1 + 2^-23 is a float, and from 2 on the sum
\* rounds back to seq_len.  The denominator as a fraction.
SeqLenPlusEps(sl) ==
    IF sl = 1 THEN [num |-> Float32EpsInv + 1, den |-> Float32EpsInv]
    ELSE [num |-> sl, den |-> 1]

\* gather index with the - 1 left out
GatherIndexNoOffset(sl) == sl

\* (seq_len - 1): the 0-based position gathered by 'last'
GatherIndex(sl) == sl - 1

\* batch_seq_embeddings[mask_token]: the selected positions, row-major
RECURSIVE MaskSelect(_, _, _)
MaskSelect(emb, mask_token, i) ==
    LET L == Len(emb[1])
        n == ((i - 1) \div L) + 1
        l == ((i - 1) % L) + 1
    IN IF i > Len(emb) * L THEN << >>
       ELSE (IF mask_token[n][l] THEN <<emb[n][l]>> ELSE << >>)
            \o MaskSelect(emb, mask_token, i + 1)

Ok(v) == [ok |-> TRUE, value |-> v, error |-> "none"]
Raise(err) == [ok |-> FALSE, value |-> None, error |-> err]

\* forward on [N, L, D]: the result before the final reshape; "returned" marks
\* the early return of 'origin'
Pool3(layer, emb, seq_len, mask_token) ==
    LET t == layer.pooling_type
        keepdim == layer.keepdim
        masked == MaskedFill(emb, seq_len)
        total == SumDim1(masked)
    IN CASE t = "mask" ->
              IF mask_token = None THEN Raise("AssertionError")
              ELSE Ok(MaskSelect(emb, mask_token, 1))
         [] t = "origin" -> [Ok(masked) EXCEPT !.error = "returned"]
         [] t = "concat" ->
              Ok(IF keepdim THEN Unsqueeze1(ConcatRows(masked))
                 ELSE ConcatRows(masked))
         [] t = "max" ->
              IF keepdim THEN Raise("AttributeError") ELSE Ok(MaxDim1(masked))
         [] t = "sum" -> Ok(IF keepdim THEN Unsqueeze1(total) ELSE total)
         [] t = "mean" ->
              IF keepdim
              THEN Ok(Unsqueeze1(
                      [n \in DOMAIN total |-> [d \in DOMAIN total[n] |->
                          Frac(total[n][d] * SeqLenPlusEps(seq_len[n]).den,
                               SeqLenPlusEps(seq_len[n]).num)]]))
              ELSE Ok([n \in DOMAIN total |-> [d \in DOMAIN total[n] |->
                          Frac(total[n][d], seq_len[n])]])
         [] t = "last" ->
              IF \E n \in DOMAIN emb : GatherIndex(seq_len[n]) \notin 0..(Len(emb[n]) - 1)
              THEN Raise("RuntimeError")
              ELSE LET output == [n \in DOMAIN emb |-> emb[n][GatherIndex(seq_len[n]) + 1]]
                   IN Ok(IF keepdim THEN Unsqueeze1(output) ELSE output)

\* SeqPoolingLayer.forward
Forward(layer, inp) ==
    LET B == Len(inp.emb)
        need_reshape == inp.dim = 4
        emb0 == IF need_reshape THEN Flatten(inp.emb) ELSE inp.emb
        seq_len == IF need_reshape THEN Flatten(inp.seq_len) ELSE inp.seq_len
        weight == IF need_reshape /\ inp.weight # None THEN Flatten(inp.weight)
                  ELSE inp.weight
        N == Len(emb0)
        emb == IF weight # None THEN ApplyWeight(emb0, weight) ELSE emb0
        r == Pool3(layer, emb, seq_len, inp.mask_token)
    IN IF ~r.ok THEN r
       ELSE IF r.error = "returned" THEN Ok(r.value)
       ELSE IF ~need_reshape THEN r
       ELSE IF layer.pooling_type = "max" THEN Raise("AttributeError")
       ELSE IF Len(r.value) # N THEN Raise("RuntimeError")
       ELSE Ok(Unflatten(r.value, B, N))

\* result.dim() of forward's return value (0 when it is not a tensor): 'mask'
\* selects rows [*, D], 'origin' keeps [N, L, D] and returns before the
\* reshape, the reductions give [N, *] or with keepdim [N, 1, *], and the
\* reshape of a 4-D call adds one dimension.
ResultDim(layer, inp) ==
    LET t == layer.pooling_type
        pooled == IF t = "origin" THEN 3
                  ELSE IF t = "mask" THEN 2
                  ELSE IF t = "max" THEN 0
                  ELSE IF layer.keepdim THEN 3 ELSE 2
    IN IF t = "origin" \/ inp.dim # 4 THEN pooled ELSE pooled + 1

Vals == (-MaxVal)..MaxVal

Tensor3(N, L, D) == [1..N -> [1..L -> [1..D -> Vals]]]

\* The shapes [N, L, D] explored.
PoolShapes ==
    {sh \in (1..MaxRows) \X (1..MaxLen) \X (1..MaxDim) :
        sh[1] * sh[2] * sh[3] <= MaxPoolCells}

PoolCall(layer, inp) ==
    [pc |-> "call", layer |-> layer, inp |-> inp, result |-> None,
     error |-> "none"]

\* The calls explored: plain 3-D calls, weighted 3-D calls, 'mask' calls with
\* a mask_token, and 4-D calls [B, Neg, L, D] with B * Neg = N.
InitPool ==
    /\ TrainerIdle
    /\ attrs = BaseModelItself
    /\ neg = NegIdle
    /\ test = TestIdle
    /\ \E sh \in PoolShapes :
          LET N == sh[1]
              L == sh[2]
              D == sh[3]
          IN \/ \E layer \in Layers, emb \in Tensor3(N, L, D),
                   seq_len \in [1..N -> 1..L],
                   weight \in {None, [n \in 1..N |-> [l \in 1..L |-> l + 1]]} :
                   pool = PoolCall(layer, [dim |-> 3, emb |-> emb,
                                           seq_len |-> seq_len, weight |-> weight,
                                           mask_token |-> None])
             \/ \E keepdim \in BOOLEAN, emb \in Tensor3(N, L, D),
                   seq_len \in [1..N -> 1..L],
                   mask_token \in [1..N -> [1..L -> BOOLEAN]] :
                   pool = PoolCall([pooling_type |-> "mask", keepdim |-> keepdim],
                                   [dim |-> 3, emb |-> emb, seq_len |-> seq_len,
                                    weight |-> None, mask_token |-> mask_token])
             \/ \E layer \in Layers, B \in {b \in 1..N : N % b = 0} :
                   \E emb \in [1..B -> Tensor3(N \div B, L, D)],
                      seq_len \in [1..B -> [1..(N \div B) -> 1..L]] :
                      pool = PoolCall(layer, [dim |-> 4, emb |-> emb,
                                              seq_len |-> seq_len,
                                              weight |-> None,
                                              mask_token |-> None])

\* result = layer(batch_seq_embeddings, seq_len, weight, mask_token)
ForwardCall ==
    /\ pool.pc = "call"
    /\ LET r == Forward(pool.layer, pool.inp)
       IN pool' = [pool EXCEPT !.pc = IF r.ok THEN "done" ELSE "raised",
                               !.result = r.value,
                               !.error = r.error]
    /\ UNCHANGED <<trainerVars, neg, test>>

NextPool == ForwardCall

SpecPool == InitPool /\ [][NextPool]_vars

----------------------------------------------------------------------------
(* BaseModel._test_epoch_end (SpecTest).  A metric value is an exact        *)
(* fraction [num, den]; outputs is the list test_epoch collected, one       *)
(* (metric, bs) pair per batch.                                             *)

MaxTestBatches == 2
MaxDen == 2

\* The keys _test_step returns: f"{name}@{cutoff}"
TestMetricNames ==
    ValMetricNames \cup { <<"h", "i", "t", "@", "2", "0">> }

\* a + b
FracAdd(a, b) == Frac(a.num * b.den + b.num * a.den, a.den * b.den)

\* a * n, n an integer
FracScale(a, n) == Frac(a.num * n, a.den)

\* a / n, n > 0
FracDiv(a, n) == Frac(a.num, a.den * n)

\* bs.sum()
RECURSIVE BsSum(_)
BsSum(bs) == IF bs = << >> THEN 0 ELSE Head(bs) + BsSum(Tail(bs))

\* metric.sum(): the batch sizes are left out of the product
RECURSIVE UnweightedSum(_, _)
UnweightedSum(metric, bs) ==
    IF metric = << >> THEN Frac(0, 1)
    ELSE FracAdd(Head(metric), UnweightedSum(Tail(metric), Tail(bs)))

\* (metric * bs).sum()
RECURSIVE WeightedSum(_, _)
WeightedSum(metric, bs) ==
    IF metric = << >> THEN Frac(0, 1)
    ELSE FracAdd(FracScale(Head(metric), Head(bs)),
                 WeightedSum(Tail(metric), Tail(bs)))

\* zip(*outputs): the metrics and the batch sizes of the batches
ZipMetric(outputs) == [i \in 1..Len(outputs) |-> outputs[i][1]]
ZipBs(outputs) == [i \in 1..Len(outputs) |-> outputs[i][2]]

\* _test_epoch_end(outputs, metrics).  kind is the type of outputs[0][0]:
\* a List gives a tensor with one entry per column, a Dict a dict with one
\* entry per key; outputs[0][0] of an empty list raises IndexError.
TestEpochEnd(kind, outputs) ==
    IF outputs = << >> THEN Raise("IndexError")
    ELSE LET metric == ZipMetric(outputs)
             bs == ZipBs(outputs)
         IN IF kind = "List"
            THEN Ok([c \in 1..Len(metric[1]) |->
                       FracDiv(WeightedSum([i \in 1..Len(metric) |-> metric[i][c]],
                                           bs),
                               BsSum(bs))])
            ELSE Ok([k \in UNION {DOMAIN metric[i] : i \in 1..Len(metric)} |->
                       FracDiv(WeightedSum([i \in 1..Len(metric) |-> metric[i][k]],
                                           bs),
                               BsSum(bs))])

\* The values a rank metric takes on a batch
TestValues == {Frac(n, MaxDen) : n \in 0..MaxDen}

TestCall(kind, outputs) ==
    [pc |-> "outputs", kind |-> kind, outputs |-> outputs, result |-> None,
     error |-> "none"]

\* The output lists of a test epoch: every batch of the loader gave the
\* metrics of _test_step (the same keys each time) and its size, which is at
\* least 1; a loader without batches gives the empty list.
InitTest ==
    /\ TrainerIdle
    /\ attrs = BaseModelItself
    /\ neg = NegIdle
    /\ pool = PoolIdle
    /\ \E n \in 0..MaxTestBatches :
          \/ \E outputs \in [1..n -> [TestMetricNames -> TestValues]
                                        \X (1..MaxBatchSize)] :
                test = TestCall("Dict", outputs)
          \/ \E outputs \in [1..n -> [1..Cardinality(TestMetricNames) -> TestValues]
                                        \X (1..MaxBatchSize)] :
                test = TestCall("List", outputs)

\* out = self._test_epoch_end(outputs, metric)
TestEpochEndCall ==
    /\ test.pc = "outputs"
    /\ LET r == TestEpochEnd(test.kind, test.outputs)
       IN test' = [test EXCEPT !.pc = IF r.ok THEN "done" ELSE "raised",
                               !.result = r.value,
                               !.error = r.error]
    /\ UNCHANGED <<trainerVars, neg, pool>>

NextTest == TestEpochEndCall

SpecTest == InitTest /\ [][NextTest]_vars

----------------------------------------------------------------------------
(* The all-domain aggregation over arbitrary domain names (SpecEval): the   *)
(* validation loop of fit_loop's first epoch, and BaseModel.evaluate after  *)
(* fit has returned.                                                        *)

MaxNameChars == 3

DomainChars == {"A", "B"}

RECURSIVE TotalLen(_)
TotalLen(names) ==
    IF names = << >> THEN 0 ELSE Len(Head(names)) + TotalLen(Tail(names))

\* Non-empty lists of distinct non-empty domain names
EvalDomainLists ==
    LET names == UNION {[1..n -> DomainChars] : n \in 1..MaxNameChars}
    IN {l \in UNION {[1..n -> names] : n \in 1..MaxNameChars} :
           /\ TotalLen(l) <= MaxNameChars
           /\ \A i, j \in 1..Len(l) : l[i] = l[j] => i = j}

\* {domain + '_' + k: v for k, v in out.items()}
DomainKeyed(domain, out) ==
    LET prefix == Concat(domain, Underscore)
    IN [k \in {Concat(prefix, m) : m \in DOMAIN out} |->
           out[RemovePrefix(k, prefix)]]

RECURSIVE SumHits(_, _)
SumHits(hits, d) ==
    IF hits = {} THEN 0
    ELSE LET h == CHOOSE x \in hits : TRUE
         IN d[h[1]] + SumHits(hits \ {h}, d)

\* evaluate's all_domain_result: every key adds its value once for EVERY
\* domain name it contains (the inner loop has no break), under the key with
\* that domain's prefix "<domain>_" removed.
EvaluateAllDomainResult(output, domains) ==
    LET hits == {h \in (DOMAIN output) \X (1..Len(domains)) :
                    IsSubstring(domains[h[2]], h[1])}
        target(h) == RemovePrefix(h[1], Concat(domains[h[2]], Underscore))
    IN [t \in {target(h) : h \in hits} |->
            SumHits({h \in hits : target(h) = t}, output)]

\* The calls one epoch makes, in the order of fit_loop.
RECURSIVE DomainCalls(_)
DomainCalls(d) ==
    IF d > Len(domain_name_list) THEN << >>
    ELSE <<Call("val_dataset.set_eval_domain", d), Call("set_eval_domain", d),
           Call("validation_epoch", d), Call("validation_epoch_end", d)>>
         \o DomainCalls(d + 1)

EpochCalls(n) ==
    <<Call("training_epoch", n)>> \o DomainCalls(1)
    \o <<Call("all_domain_result", n), Call("training_epoch_end", n),
         Call("callback", n)>>

RECURSIVE ExpectedCalls(_)
ExpectedCalls(k) ==
    IF k = 0 THEN <<Call("train_start", 0)>>
    ELSE ExpectedCalls(k - 1) \o EpochCalls(k - 1)

\* The state of the trainer in fit_loop's first epoch (epochs = 1, one
\* training batch) when training_epoch has returned and the domain loop starts
ValidationStart ==
    /\ cls = "BaseModel"
    /\ config = [epochs |-> 1, nbatches |-> 1, warmup_epoch |-> 0,
                 interval |-> 1, descent_step |-> 0]
    /\ attrs = {"item_embedding", "forward", "logged_metrics"}
    /\ pc = "set_eval_domain_dataset"
    /\ nepoch = 0
    /\ e = 0
    /\ batch_idx = 1
    /\ domain_idx = 1
    /\ logged_metrics = (KeyEpoch :> 0)
    /\ calls = <<Call("train_start", 0), Call("training_epoch", 0)>>
    /\ ckpt_path = "None"
    /\ eval_domain = << <<>>, <<>> >>
    /\ interrupted = "none"
    /\ stop_training = FALSE
    /\ opt_steps = 1
    /\ last_step = "BaseModel.training_step"
    /\ step_counter = 0
    /\ proxy = NoProxy
    /\ outer_idx = 0
    /\ meta_steps = 0
    /\ metaloader_iter = 0
    /\ meta_batch = 0

RECURSIVE ValidationMetrics(_, _, _)
\* logged_metrics after the validation of the domains from index d on, every
\* metric of every domain having the value v
ValidationMetrics(metrics, d, v) ==
    IF d > Len(domain_name_list) THEN metrics
    ELSE ValidationMetrics(
            DictUpdate(metrics,
                       DomainKeyed(domain_name_list[d],
                                   [m \in ValMetricNames |-> v])),
            d + 1, v)

\* self.logged_metrics when an epoch numbered n has run to its callback, every
\* metric of every domain having the value v and the training loss being loss
EpochMetrics(n, v, loss) ==
    LET validated == ValidationMetrics(KeyEpoch :> n, 1, v)
        summed == DictUpdate(validated,
                             AllDomainResult(validated, domain_name_list))
    IN DictUpdate(summed, KeyTrainLoss :> loss)

\* The state of the trainer when fit has returned without an interrupt and
\* without an early stop, after no epoch (self has no logged_metrics then) or
\* after one epoch of one batch (its training_step has returned then)
FitReturned ==
    /\ cls = "BaseModel"
    /\ \E epochs \in 0..1 :
          /\ config = [epochs |-> epochs, nbatches |-> 1, warmup_epoch |-> 0,
                       interval |-> 1, descent_step |-> 0]
          /\ attrs \in IF epochs = 0
                       THEN {{"item_embedding"}, {"item_embedding", "forward"}}
                       ELSE {{"item_embedding", "forward", "logged_metrics"}}
          /\ nepoch = epochs
          /\ e = IF epochs = 0 THEN Unbound ELSE 0
          /\ batch_idx = epochs
          /\ domain_idx = IF epochs = 0 THEN 0 ELSE Len(domain_name_list)
          /\ IF epochs = 0
             THEN logged_metrics = << >>
             ELSE \E v \in MetricValues :
                     logged_metrics = EpochMetrics(0, v, v)
          /\ calls = ExpectedCalls(epochs)
                     \o <<Call("training_end", 0), Call("save_checkpoint", epochs)>>
          /\ eval_domain = IF epochs = 0 THEN << <<>>, <<>> >>
                           ELSE <<domain_name_list[Len(domain_name_list)],
                                  domain_name_list[Len(domain_name_list)]>>
          /\ opt_steps = epochs
          /\ last_step = IF epochs = 0 THEN "none" ELSE "BaseModel.training_step"
    /\ pc = "returned"
    /\ ckpt_path = CkptPath
    /\ interrupted = "none"
    /\ stop_training = FALSE
    /\ step_counter = 0
    /\ proxy = NoProxy
    /\ outer_idx = 0
    /\ meta_steps = 0
    /\ metaloader_iter = 0
    /\ meta_batch = 0

EvaluateCall ==
    [pc |-> "evaluate", domain_idx |-> 0, test_data_domain |-> << >>,
     output |-> << >>, loaded |-> "None"]

InitEval ==
    /\ domain_name_list \in EvalDomainLists
    /\ neg = NegIdle
    /\ pool = PoolIdle
    /\ \/ ValidationStart /\ test = TestIdle
       \/ FitReturned /\ test = EvaluateCall

\* The configurations a checkpoint file may hold: torch.load reads whatever
\* was saved under the path
CheckpointConfigs ==
    [epochs : 0..1, nbatches : {1}, warmup_epoch : {0}, interval : {1},
     descent_step : {0}]

\* output = defaultdict(float); self.load_checkpoint(...), which assigns
\* self.config = ckpt['config']; self.eval().  os.path.join raises TypeError
\* on the ckpt_path None of a model whose fit has not set it.
EvaluateBegin ==
    /\ test.pc = "evaluate"
    /\ IF ckpt_path = "None"
       THEN /\ test' = [test EXCEPT !.pc = "raised"]
            /\ UNCHANGED config
       ELSE /\ \E ckpt_config \in CheckpointConfigs : config' = ckpt_config
            /\ test' = [test EXCEPT !.pc = "set_eval_domain",
                                    !.loaded = ckpt_path,
                                    !.domain_idx = 1]
    /\ UNCHANGED <<cls, domain_name_list, attrs, pc, nepoch, e, batch_idx,
                   domain_idx, logged_metrics, calls, ckpt_path, eval_domain,
                   interrupted, stop_training, opt_steps, last_step,
                   step_counter, proxy, outer_idx, meta_steps, metaloader_iter,
                   meta_batch, neg, pool>>

\* test_data.set_eval_domain(domain); self.set_eval_domain(domain)
EvaluateSetEvalDomain ==
    /\ test.pc = "set_eval_domain"
    /\ test' = [test EXCEPT
                   !.pc = "test_epoch",
                   !.test_data_domain = domain_name_list[test.domain_idx]]
    /\ eval_domain' = <<eval_domain[1], domain_name_list[test.domain_idx]>>
    /\ UNCHANGED <<cls, config, domain_name_list, attrs, pc, nepoch, e,
                   batch_idx, domain_idx, logged_metrics, calls, ckpt_path,
                   interrupted, stop_training, opt_steps, last_step,
                   step_counter, proxy, outer_idx, meta_steps, metaloader_iter,
                   meta_batch, neg, pool>>

\* output_list = self.test_epoch(test_loader);
\* output.update(self.test_epoch_end(output_list, domain)), where test_step
\* raises TypeError in topk's self.forward(batch) on BaseModel.forward(self),
\* and test_epoch_end's self.logged_metrics.update(out) raises AttributeError
\* on a model whose fit_loop never created logged_metrics
EvaluateTestEpoch ==
    /\ test.pc = "test_epoch"
    /\ IF TopkForwardRaises \/ "logged_metrics" \notin attrs
       THEN /\ test' = [test EXCEPT !.pc = "raised"]
            /\ UNCHANGED logged_metrics
       ELSE \E out \in [TestMetricNames -> MetricValues] :
          LET keyed == DomainKeyed(domain_name_list[test.domain_idx], out)
          IN /\ logged_metrics' = DictUpdate(logged_metrics, keyed)
             /\ test' = [test EXCEPT
                            !.output = DictUpdate(test.output, keyed),
                            !.pc = IF test.domain_idx < Len(domain_name_list)
                                   THEN "set_eval_domain"
                                   ELSE "all_domain_result",
                            !.domain_idx = IF test.domain_idx < Len(domain_name_list)
                                           THEN test.domain_idx + 1
                                           ELSE test.domain_idx]
    /\ UNCHANGED <<cls, config, domain_name_list, attrs, pc, nepoch, e,
                   batch_idx, domain_idx, calls, ckpt_path, eval_domain,
                   interrupted, stop_training, opt_steps, last_step,
                   step_counter, proxy, outer_idx, meta_steps, metaloader_iter,
                   meta_batch, neg, pool>>

\* all_domain_result is summed and merged into output, which is returned
EvaluateAggregation ==
    /\ test.pc = "all_domain_result"
    /\ test' = [test EXCEPT
                   !.pc = "returned",
                   !.output = DictUpdate(test.output,
                                 EvaluateAllDomainResult(test.output,
                                                         domain_name_list))]
    /\ UNCHANGED <<trainerVars, neg, pool>>

NextEval ==
    \/ SetEvalDomainDataset
    \/ SetEvalDomain
    \/ ValidationEpoch
    \/ ValidationEpochEnd
    \/ ValidationEpochEndReturn
    \/ AllDomainAggregation
    \/ EvaluateBegin
    \/ EvaluateSetEvalDomain
    \/ EvaluateTestEpoch
    \/ EvaluateAggregation

SpecEval == InitEval /\ [][NextEval]_vars

----------------------------------------------------------------------------
(* BaseModel.topk (SpecTopk).  Items are the ids 0..num_items-1, 0 being    *)
(* the padding id; a score is finite or -inf.                               *)

MaxTopkItems == 3
MaxRowCells == 6
MaxScore == 1
MaxK == 2
MaxTopkCells == 6

\* The batches explored: B rows of num_items scores and H history entries,
\* B * (num_items + H) <= MaxTopkCells and num_items * H <= MaxRowCells.

\* A finite score, and -torch.inf
Fin(v) == [fin |-> TRUE, v |-> v]
NegInf == [fin |-> FALSE, v |-> 0]

\* a <= b on scores
ScoreLeq(a, b) == (~a.fin) \/ (b.fin /\ a.v <= b.v)

\* domain_mask with the items of the evaluated domain set to 1 instead of 0
DomainMaskInverted(num_items, domain_items) ==
    [i \in 0..(num_items - 1) |-> i \in domain_items]

\* domain_mask = torch.ones(1, num_items); domain_mask[:, domain_items] = 0
DomainMask(num_items, domain_items) ==
    [i \in 0..(num_items - 1) |-> i \notin domain_items]

\* score.masked_fill(mask, -inf), the mask broadcast over the rows
MaskedFillNegInf(score, mask) ==
    [b \in DOMAIN score |->
        [i \in DOMAIN score[b] |-> IF mask[i] THEN NegInf ELSE score[b][i]]]

\* user_h[user_h == -1] = 0
PadHistory(user_h) ==
    [b \in DOMAIN user_h |->
        [j \in DOMAIN user_h[b] |-> IF user_h[b][j] = -1 THEN 0 ELSE user_h[b][j]]]

\* torch.scatter(score, 1, index, -inf)
ScatterNegInf(score, index) ==
    [b \in DOMAIN score |->
        [i \in DOMAIN score[b] |->
            IF \E j \in DOMAIN index[b] : index[b][j] = i THEN NegInf
            ELSE score[b][i]]]

\* torch.topk(row, k) on one row: k distinct ids in descending order of score,
\* no id left out scoring higher than one returned; which of several equal
\* scores is returned is not determined
TopkRow(row, k) ==
    {s \in [1..k -> DOMAIN row] :
        /\ \A i, j \in 1..k : s[i] = s[j] => i = j
        /\ \A i \in 1..(k - 1) : ScoreLeq(row[s[i + 1]], row[s[i]])
        /\ \A x \in DOMAIN row :
              (\A i \in 1..k : s[i] # x) => \A i \in 1..k : ScoreLeq(row[x], row[s[i]])}

\* masked_score of topk(batch, k, user_h)
MaskedScore(real_score, num_items, domain_items, user_h) ==
    ScatterNegInf(MaskedFillNegInf(real_score, DomainMask(num_items, domain_items)),
                  PadHistory(user_h))

TopkCall(num_items, domain_items, k, real_score, user_h) ==
    [pc |-> "topk", num_items |-> num_items, domain_items |-> domain_items,
     k |-> k, real_score |-> real_score, user_h |-> user_h,
     score |-> None, topk_items |-> None, error |-> "none"]

TopkShapes ==
    {sh \in (1..MaxBatchSize) \X (1..MaxTopkItems) \X (1..MaxRowCells) :
        /\ sh[2] * sh[3] <= MaxRowCells
        /\ sh[1] * (sh[2] + sh[3]) <= MaxTopkCells}

\* The calls of _test_step: the scores of the batch's queries against all
\* items, the items of self.eval_domain, and batch['user_hist'] padded with -1
InitTopk ==
    /\ TrainerIdle
    /\ attrs \in {BaseModelItself, SubclassWithForward}
    /\ neg = NegIdle
    /\ pool = PoolIdle
    /\ \E sh \in TopkShapes, k \in 1..MaxK :
          LET items == 0..(sh[2] - 1)
          IN \E domain_items \in SUBSET items,
                real_score \in [1..sh[1] -> [items -> {Fin(v) : v \in 0..MaxScore}]],
                user_h \in [1..sh[1] -> [1..sh[3] -> {-1} \cup items]] :
                test = TopkCall(sh[2], domain_items, k, real_score, user_h)

\* score, topk_items = self.topk(batch, topk, batch['user_hist']): after a
\* TypeError of forward nothing is masked and user_h is as it was; torch.topk
\* raises RuntimeError for k > num_items, after user_h has been padded
Topk ==
    /\ test.pc = "topk"
    /\ LET masked_score == MaskedScore(test.real_score, test.num_items,
                                       test.domain_items, test.user_h)
       IN IF TopkForwardRaises
          THEN test' = [test EXCEPT !.pc = "raised", !.error = "TypeError"]
          ELSE IF test.k > test.num_items
          THEN test' = [test EXCEPT !.pc = "raised",
                                    !.error = "RuntimeError",
                                    !.user_h = PadHistory(test.user_h)]
          ELSE \E topk_items \in [DOMAIN masked_score -> [1..test.k -> 0..(test.num_items - 1)]] :
                  /\ \A b \in DOMAIN masked_score :
                        topk_items[b] \in TopkRow(masked_score[b], test.k)
                  /\ test' = [test EXCEPT
                                 !.pc = "done",
                                 !.user_h = PadHistory(test.user_h),
                                 !.topk_items = topk_items,
                                 !.score = [b \in DOMAIN masked_score |->
                                              [j \in 1..test.k |->
                                                 masked_score[b][topk_items[b][j]]]]]
    /\ UNCHANGED <<trainerVars, neg, pool>>

NextTopk == Topk

SpecTopk == InitTopk /\ [][NextTopk]_vars

----------------------------------------------------------------------------
\* The scheduler runs the single thread of fit_loop until it returns or raises.
FairSpec == Spec /\ WF_vars(Next)

----------------------------------------------------------------------------
(* Properties of the training control loop (Spec, FairSpec)               *)

CountCalls(op) == Cardinality({i \in DOMAIN calls : calls[i].op = op})

\* The positions of fit_loop from train_start to the end of the epoch whose
\* callback has returned.
EpochPhases ==
    {"train_start", "for", "reset_metrics", "log_epoch", "training_epoch",
     "training_for", "training_step", "optimizer_step", "step_counter",
     "outter_loop", "outter_load", "outter_proxy", "outter_next",
     "outter_except", "outter_except_next", "outter_meta",
     "set_eval_domain_dataset", "set_eval_domain",
     "validation_epoch", "validation_epoch_end",
     "validation_epoch_end_return", "all_domain_result", "training_epoch_end",
     "training_epoch_end_return", "callback", "nepoch_inc"}

OutterPhases ==
    {"outter_loop", "outter_load", "outter_proxy", "outter_next",
     "outter_except", "outter_except_next", "outter_meta"}

\* The statements of _outter_loop that draw the meta batch and use it
MetaBatchPhases ==
    {"outter_next", "outter_except", "outter_except_next", "outter_meta"}

\* The epochs whose loop iteration has run to its end, `nepoch += 1` included:
\* every epoch whose callback has returned, but for the one an interrupt cut
\* off between the callback and the increment.
CompletedEpochs ==
    IF interrupted = "nepoch_inc" THEN CountCalls("callback") - 1
    ELSE CountCalls("callback")

\* C1: a KeyboardInterrupt raised during train_start, a training epoch, the
\* validation, training_epoch_end or the callback is caught: control goes to
\* the handler, which calls save_checkpoint(n) with n the number of epochs
\* completed and then sets ckpt_path; when fit_loop has returned that call is
\* the last and the only save_checkpoint.
C1_InterruptSavesCheckpoint ==
    /\ [][(interrupted = "none" /\ interrupted' \in EpochPhases) => (pc' = "except")]_vars
    /\ [][(pc = "except" /\ interrupted \in EpochPhases) =>
             /\ pc' \in {"except_get_checkpoint_path", "raised"}
             /\ (pc' = "except_get_checkpoint_path" =>
                    calls' = Append(calls, Call("save_checkpoint", CompletedEpochs)))
             /\ (pc' = "raised" => calls' = calls)]_vars
    /\ []((pc = "return" /\ interrupted \in EpochPhases) => ckpt_path = CkptPath)
    /\ []((pc = "returned" /\ interrupted \in EpochPhases) =>
             /\ Len(calls) >= 1
             /\ calls[Len(calls)] = Call("save_checkpoint", CompletedEpochs)
             /\ nepoch = CompletedEpochs
             /\ CountCalls("save_checkpoint") = 1
             /\ ckpt_path = CkptPath)

C1_Witness ==
    /\ pc = "returned"
    /\ interrupted = "validation_epoch"
    /\ CountCalls("callback") = 1
    /\ nepoch = 1
    /\ calls[Len(calls)] = Call("save_checkpoint", 1)

IsPrefix(s, t) == Len(s) <= Len(t) /\ SubSeq(t, 1, Len(s)) = s

IsEndCall(c) == c.op \in {"training_end", "save_checkpoint"}

EpochBody == SelectSeq(calls, LAMBDA c : ~IsEndCall(c))

\* C9: train_start comes once and first; every epoch calls training_epoch, then
\* per domain in list order set_eval_domain on the dataset and on the model,
\* validation_epoch, validation_epoch_end, then the all-domain aggregation,
\* training_epoch_end and the callback; logged_metrics is empty when the epoch
\* number is logged, holds only the epoch when training_epoch starts and
\* carries the current epoch up to the callback.
C9_EpochOrder ==
    /\ IsPrefix(EpochBody, ExpectedCalls(config.epochs))
    /\ (pc = "log_epoch" => logged_metrics = << >>)
    /\ (pc = "training_epoch" => logged_metrics = (KeyEpoch :> nepoch))
    /\ (pc = "callback" =>
           /\ logged_metrics[KeyEpoch] = nepoch
           /\ calls[Len(calls)] = Call("training_epoch_end", nepoch))

C9_Witness ==
    /\ pc = "callback"
    /\ nepoch = 1
    /\ Len(EpochBody) = 2 * Len(EpochCalls(0))
    /\ KeyTrainLoss \in DOMAIN logged_metrics

\* C10: at most config['epochs'] training epochs run and fit_loop ends; after
\* the callback returned True nothing is trained or validated any more; an
\* exit without interrupt ends with one training_end and then the only
\* save_checkpoint(nepoch), nepoch being the epoch of the stopping callback or
\* config['epochs'] without a stop.
C10_Termination ==
    /\ <>(pc \in {"returned", "raised"})
    /\ [](CountCalls("training_epoch") <= config.epochs)
    /\ [](stop_training => pc \in {"training_end", "save_checkpoint",
                                    "get_checkpoint_path", "except",
                                    "except_get_checkpoint_path", "return",
                                    "returned", "raised"})
    /\ [][stop_training => (calls' = calls \/ IsEndCall(calls'[Len(calls')]))]_vars
    /\ []((pc = "returned" /\ interrupted = "none") =>
             /\ Len(calls) >= 2
             /\ calls[Len(calls) - 1] = Call("training_end", 0)
             /\ calls[Len(calls)] = Call("save_checkpoint", nepoch)
             /\ CountCalls("training_end") = 1
             /\ CountCalls("save_checkpoint") = 1
             /\ ckpt_path = CkptPath
             /\ nepoch = IF stop_training THEN CountCalls("callback") - 1
                         ELSE config.epochs
             /\ (stop_training =>
                    calls[Len(calls) - 2] = Call("callback", nepoch)))

C10_Witness ==
    /\ pc = "returned"
    /\ interrupted = "none"
    /\ stop_training
    /\ nepoch = 0
    /\ config.epochs = 2
    /\ CountCalls("training_epoch") = 1

\* C7: step_counter counts every trained batch of every epoch, one by one,
\* behind the sub-model's optimizer by the batch whose step has just been
\* taken; the outer loop starts right after a batch exactly when
\* nepoch > warmup_epoch and the new step_counter is a multiple of interval;
\* up to and including the warm-up epoch the batch is trained by the
\* sub-model's own training_step and no outer loop runs.
C7_OutterLoopSchedule ==
    /\ [](cls = "MetaModel" =>
             step_counter = IF "step_counter" \in {pc, interrupted}
                            THEN opt_steps - 1 ELSE opt_steps)
    /\ [](pc \in OutterPhases =>
             nepoch > config.warmup_epoch /\ step_counter % config.interval = 0)
    /\ []((cls = "MetaModel" /\ pc \in {"optimizer_step", "step_counter"}) =>
             last_step = IF nepoch > config.warmup_epoch
                         THEN "MetaModel.training_step"
                         ELSE "sub_model.training_step")
    /\ [][(pc = "step_counter" /\ pc' # "except") =>
             /\ step_counter' = step_counter + 1
             /\ pc' \in {"outter_loop", "training_for"}
             /\ (pc' = "outter_loop" <=>
                    (nepoch > config.warmup_epoch
                     /\ step_counter' % config.interval = 0))]_vars
    /\ [][(pc' = "outter_loop") => (pc = "step_counter")]_vars
    /\ [][step_counter' # step_counter =>
             (pc = "step_counter" /\ step_counter' = step_counter + 1)]_vars

C7_Witness ==
    /\ pc = "outter_loop"
    /\ config.warmup_epoch = 0
    /\ config.interval = 2
    /\ config.nbatches = 2
    /\ nepoch = 1
    /\ batch_idx = 2
    /\ step_counter = 2 * config.nbatches
    /\ opt_steps = step_counter
    /\ meta_steps = 0

\* C8: an outer loop builds a new proxy, loads it with the sub-model's current
\* parameters and starts it without a step; when the meta batch is drawn the
\* proxy has taken exactly descent_step steps; every return of the outer loop
\* takes exactly one meta_optimizer.step, which happens nowhere else; the
\* sub-model's optimizer does not step inside the outer loop.
C8_OutterLoopSteps ==
    /\ [](proxy.steps <= config.descent_step)
    /\ [](pc \in MetaBatchPhases =>
             /\ proxy = [base |-> opt_steps, steps |-> config.descent_step,
                         live |-> TRUE]
             /\ config.descent_step < config.nbatches)
    /\ [][(pc = "outter_loop" /\ pc' = "outter_load") =>
             proxy' = [base |-> FreshParameters, steps |-> 0, live |-> TRUE]]_vars
    /\ [][(pc = "outter_load" /\ pc' = "outter_proxy") =>
             proxy' = [base |-> opt_steps, steps |-> 0, live |-> TRUE]]_vars
    /\ [][(pc \in OutterPhases /\ pc' = "training_for") =>
             (pc = "outter_meta" /\ meta_steps' = meta_steps + 1)]_vars
    /\ [][meta_steps' # meta_steps =>
             (pc = "outter_meta" /\ pc' = "training_for")]_vars
    /\ [][(pc \in OutterPhases) => (opt_steps' = opt_steps)]_vars

C8_Witness ==
    /\ pc = "training_for"
    /\ meta_steps = 2
    /\ proxy.steps = 1
    /\ config.descent_step = 1
    /\ proxy.base = opt_steps

----------------------------------------------------------------------------
(* Properties of negative sampling (SpecNeg)                               *)

\* C2: every sampled index of row b is a real item id (1..num_items-1, never
\* the padding id 0) that does not occur in user_seq[b], and the result has
\* the shape [B, max_seq_len, num_neg].
C2_NegativesNotInUserSeq ==
    neg.pc \in {"sampled", "scored"} =>
        /\ DOMAIN neg.neg_item = DOMAIN neg.user_seq
        /\ \A b \in DOMAIN neg.neg_item :
              /\ DOMAIN neg.neg_item[b] = 1..neg.max_seq_len
              /\ \A l \in 1..neg.max_seq_len :
                    /\ DOMAIN neg.neg_item[b][l] = 1..neg.num_neg
                    /\ \A k \in 1..neg.num_neg :
                          /\ neg.neg_item[b][l][k] \in 1..(neg.num_items - 1)
                          /\ neg.neg_item[b][l][k] \notin Range(neg.user_seq[b])

\* Two rows with different histories, each sampled from its own complement.
C2_Witness ==
    /\ neg.pc = "sampled"
    /\ Len(neg.user_seq) = 2
    /\ neg.max_seq_len = 2
    /\ neg.user_seq[1] = <<1, 2>>
    /\ neg.user_seq[2] = <<3, 0>>
    /\ neg.neg_item[1][1][1] = 3
    /\ neg.neg_item[2][2][1] = 1

\* C3: no negative of row b is a non-padding target of row b.
C3_NegativesNotTargets ==
    neg.pc \in {"sampled", "scored"} =>
        \A b \in DOMAIN neg.neg_item :
            \A l \in 1..neg.max_seq_len : \A k \in 1..neg.num_neg :
                neg.neg_item[b][l][k] \notin (Range(neg.target_item[b]) \ {0})


----------------------------------------------------------------------------
(* Properties of sequence pooling (SpecPool)                               *)

\* The sequences of a call and the results per sequence, [N, ...] for a 3-D
\* and for a 4-D input alike.
InputRows == IF pool.inp.dim = 4 THEN Flatten(pool.inp.emb) ELSE pool.inp.emb
InputSeqLen ==
    IF pool.inp.dim = 4 THEN Flatten(pool.inp.seq_len) ELSE pool.inp.seq_len
ResultRows(x) == IF pool.inp.dim = 4 THEN Flatten(x) ELSE x

Unweighted(t) ==
    /\ pool.pc \in {"done", "raised"}
    /\ pool.layer.pooling_type = t
    /\ pool.inp.weight = None

\* The values of sequence n in dimension d at the valid positions.
ValidValues(n, d) == {InputRows[n][l][d] : l \in 1..InputSeqLen[n]}

ValidSum(n, d) ==
    SumTo([l \in DOMAIN InputRows[n] |-> InputRows[n][l][d]], InputSeqLen[n])

Dims == DOMAIN InputRows[1][1]

\* C4: 'max' pooling returns, per sequence and dimension, the maximum of the
\* values at the positions 0..seq_len-1; padded positions and their fill value
\* do not decide it.
C4_MaxOverValidPositions ==
    (Unweighted("max") /\ pool.inp.dim = 3 /\ pool.pc = "done") =>
        \A n \in DOMAIN InputRows : \A d \in Dims :
            /\ pool.result.values[n][d] \in ValidValues(n, d)
            /\ \A v \in ValidValues(n, d) : v <= pool.result.values[n][d]

\* C5: 'sum' pooling returns, per sequence and dimension, the sum of the values
\* at the positions 0..seq_len-1 ([N, D], or [N, 1, D] with keepdim), and
\* 'mean' pooling without keepdim that sum divided by seq_len; neither raises.
C5_SumAndMean ==
    /\ Unweighted("sum") =>
          /\ pool.pc = "done"
          /\ ResultRows(pool.result) =
                [n \in DOMAIN InputRows |->
                    IF pool.layer.keepdim
                    THEN << [d \in Dims |-> ValidSum(n, d)] >>
                    ELSE [d \in Dims |-> ValidSum(n, d)]]
    /\ (Unweighted("mean") /\ ~pool.layer.keepdim) =>
          /\ pool.pc = "done"
          /\ DOMAIN ResultRows(pool.result) = DOMAIN InputRows
          /\ \A n \in DOMAIN InputRows :
                /\ DOMAIN ResultRows(pool.result)[n] = Dims
                /\ \A d \in Dims :
                      LET q == ResultRows(pool.result)[n][d]
                      IN /\ q.den > 0
                         /\ q.num * InputSeqLen[n] = ValidSum(n, d) * q.den
                         /\ q = Frac(ValidSum(n, d), InputSeqLen[n])

\* A mean over one valid position next to a padded position that holds 1, and
\* a mean over two positions that is not an integer.
C5_Witness ==
    /\ Unweighted("mean")
    /\ ~pool.layer.keepdim
    /\ pool.pc = "done"
    /\ pool.inp.dim = 3
    /\ pool.inp.emb = << << <<-1>>, <<1>> >>, << <<0>>, <<1>> >> >>
    /\ pool.inp.seq_len = <<1, 2>>
    /\ pool.result =
          << <<[num |-> -1, den |-> 1]>>, <<[num |-> 1, den |-> 2]>> >>

\* C6: 'last' pooling returns, per sequence, the embedding at position
\* seq_len-1, as [N, D] without keepdim and as [N, 1, D] with it, whatever the
\* padded positions hold; it does not raise for 1 <= seq_len <= L.
C6_LastValidPosition ==
    Unweighted("last") =>
        /\ pool.pc = "done"
        /\ ResultRows(pool.result) =
              [n \in DOMAIN InputRows |->
                  IF pool.layer.keepdim
                  THEN << InputRows[n][InputSeqLen[n]] >>
                  ELSE InputRows[n][InputSeqLen[n]]]

\* GRU4Rec's evaluation layer on two sequences of different length, the
\* first one followed by a padded position that holds other values.
C6_Witness ==
    /\ pool.pc = "done"
    /\ pool.layer = GRU4RecPoolingLayer(FALSE)
    /\ pool.inp.dim = 3
    /\ pool.inp.weight = None
    /\ pool.inp.emb = << << <<-1>>, <<1>> >>, << <<0>>, <<1>> >> >>
    /\ pool.inp.seq_len = <<1, 2>>
    /\ pool.result = << <<-1>>, <<1>> >>

----------------------------------------------------------------------------
(* Properties of metric averaging (SpecTest)                               *)

\* a <= b
FracLeq(a, b) == a.num * b.den <= b.num * a.den

\* The entries of a result: the keys of a dict, the columns of a list
Entries(x) == DOMAIN x

\* The per-batch values of entry k
BatchValues(outputs, k) == [i \in 1..Len(outputs) |-> outputs[i][1][k]]

RECURSIVE DenProduct(_)
DenProduct(v) == IF v = << >> THEN 1 ELSE Head(v).den * DenProduct(Tail(v))

\* sum_i(metric_i * bs_i), as an integer over the common denominator
\* DenProduct(v)
RECURSIVE ScaledNumerator(_, _, _)
ScaledNumerator(v, bs, P) ==
    IF v = << >> THEN 0
    ELSE Head(v).num * Head(bs) * (P \div Head(v).den)
         + ScaledNumerator(Tail(v), Tail(bs), P)

\* outputs with batch i split into a batch of b1 examples and one of the
\* rest, each with the value of batch i
SplitBatch(outputs, i, b1) ==
    SubSeq(outputs, 1, i - 1)
    \o << <<outputs[i][1], b1>>, <<outputs[i][1], outputs[i][2] - b1>> >>
    \o SubSeq(outputs, i + 1, Len(outputs))

\* C11: for a non-empty list of per-batch outputs, _test_epoch_end returns for
\* each metric the batch-size-weighted mean sum_i(metric_i * bs_i) / sum_i(bs_i);
\* the result is the same when a batch is split into two batches of the same
\* value, and lies between the smallest and the largest per-batch value.
C11_WeightedMean ==
    (test.pc \in {"done", "raised"} /\ test.outputs # << >>) =>
       /\ test.pc = "done"
       /\ Entries(test.result) = Entries(test.outputs[1][1])
       /\ \A k \in Entries(test.result) :
             LET v == BatchValues(test.outputs, k)
                 bs == ZipBs(test.outputs)
                 P == DenProduct(v)
                 r == test.result[k]
             IN /\ r.den > 0
                /\ r.num * BsSum(bs) * P = r.den * ScaledNumerator(v, bs, P)
                /\ \E i \in 1..Len(v) : FracLeq(v[i], r)
                /\ \E i \in 1..Len(v) : FracLeq(r, v[i])
       /\ \A i \in 1..Len(test.outputs) :
             \A b1 \in 1..(test.outputs[i][2] - 1) :
                TestEpochEnd(test.kind, SplitBatch(test.outputs, i, b1)).value
                   = test.result

\* Two batches of sizes 1 and 2 whose values differ: the mean leans to the
\* larger batch.
C11_Witness ==
    /\ test.pc = "done"
    /\ test.kind = "Dict"
    /\ Len(test.outputs) = 2
    /\ test.outputs[1][2] = 1
    /\ test.outputs[2][2] = 2
    /\ \A k \in TestMetricNames :
          /\ test.outputs[1][1][k] = Frac(1, 1)
          /\ test.outputs[2][1][k] = Frac(0, 1)
          /\ test.result[k] = Frac(1, 3)

----------------------------------------------------------------------------
(* Properties of the all-domain aggregation (SpecEval)                      *)

RECURSIVE DomainSum(_, _, _)
\* sum over the domains d of metrics[d + '_' + m]
DomainSum(metrics, domains, m) ==
    IF domains = << >> THEN 0
    ELSE metrics[Concat(Concat(Head(domains), Underscore), m)]
         + DomainSum(metrics, Tail(domains), m)

\* C12: for distinct domain names and every metric name m, the all-domain
\* value under key m (in logged_metrics after fit_loop's validation, and in
\* the dict evaluate returns) is the sum over all domains d of the value under
\* d + '_' + m, each counted once.
C12_AllDomainSum ==
    /\ pc = "training_epoch_end" =>
          \A m \in ValMetricNames :
             /\ m \in DOMAIN logged_metrics
             /\ logged_metrics[m] = DomainSum(logged_metrics, domain_name_list, m)
    /\ test.pc = "returned" =>
          \A m \in TestMetricNames :
             /\ m \in DOMAIN test.output
             /\ test.output[m] = DomainSum(test.output, domain_name_list, m)

\* The same statement for evaluate alone, whose inner loop has no break.
C12_EvaluateSum ==
    test.pc = "returned" =>
       \A m \in TestMetricNames :
          /\ m \in DOMAIN test.output
          /\ test.output[m] = DomainSum(test.output, domain_name_list, m)

----------------------------------------------------------------------------
(* Properties of top-k retrieval (SpecTopk)                                 *)

\* The ids of row b's history, -1 read as the padding id 0.  test.user_h is
\* the batch's tensor, which topk has rewritten in place by then.
HistoryIds(b) ==
    {IF test.user_h[b][j] = -1 THEN 0 ELSE test.user_h[b][j] :
        j \in DOMAIN test.user_h[b]}

\* The items of the evaluated domain that are not in row b's history
Eligible(b) == test.domain_items \ HistoryIds(b)

\* C13: in every row, an item topk returns with a score above -inf is an item
\* of the evaluated domain outside the row's history (-1 read as id 0); in a
\* row with at least k such items all k returned items are of that kind.
C13_TopkEligible ==
    test.pc = "done" =>
       \A b \in DOMAIN test.topk_items :
          /\ \A j \in 1..test.k :
                test.score[b][j].fin => test.topk_items[b][j] \in Eligible(b)
          /\ Cardinality(Eligible(b)) >= test.k =>
                \A j \in 1..test.k : test.topk_items[b][j] \in Eligible(b)

\* Three items with equal scores, item 2 in the domain but in the history,
\* item 0 in the domain and hidden by the -1 padding of the history: only
\* item 1 is eligible, and it comes first of the two returned.
C13_Witness ==
    /\ test.pc = "done"
    /\ "forward" \in attrs
    /\ test.num_items = 3
    /\ test.k = 2
    /\ test.domain_items = {0, 1, 2}
    /\ DOMAIN test.real_score = {1}
    /\ \A i \in 0..2 : test.real_score[1][i] = Fin(1)
    /\ HistoryIds(1) = {0, 2}
    /\ test.topk_items[1][1] = 1
    /\ test.score[1] = <<Fin(1), NegInf>>

----------------------------------------------------------------------------
(* 4-D inputs of sequence pooling (SpecPool)                                *)

\* The first n sizes of tensor x
RECURSIVE Shape(_, _)
Shape(x, n) == IF n = 0 THEN << >> ELSE <<Len(x)>> \o Shape(x[1], n - 1)

\* The 3-D call on the single sequence [b, n] of the 4-D input
SingleSequence(b, n) ==
    [dim |-> 3, emb |-> <<pool.inp.emb[b][n]>>,
     seq_len |-> <<pool.inp.seq_len[b][n]>>, weight |-> None,
     mask_token |-> None]

\* C14: for the pooling types 'origin', 'concat', 'sum', 'mean', 'max' and
\* 'last', forward on a 4-D input [B, Neg, L, D] with seq_len [B, Neg] returns
\* a tensor with leading dimensions [B, Neg] whose entry [b, n] is the result
\* of pooling the 3-D sequence [b, n] on its own.
C14_FourDimPerSequence ==
    (/\ pool.pc \in {"done", "raised"}
     /\ pool.inp.dim = 4
     /\ pool.layer.pooling_type \in {"origin", "concat", "sum", "mean", "max", "last"}) =>
       /\ pool.pc = "done"
       /\ ResultDim(pool.layer, pool.inp)
             = 1 + ResultDim(pool.layer, SingleSequence(1, 1))
       /\ Shape(pool.result, 2) = Shape(pool.inp.emb, 2)
       /\ \A b \in DOMAIN pool.inp.emb : \A n \in DOMAIN pool.inp.emb[b] :
             LET single == Forward(pool.layer, SingleSequence(b, n))
             IN single.ok /\ pool.result[b][n] = single.value[1]

----------------------------------------------------------------------------
(* Properties of the meta batch iterator (SpecMeta)                         *)

\* C15: the meta batch of an outer-loop call comes from the persistent
\* iterator metaloader_iter: the k-th call that draws a batch uses batch
\* (k-1) mod len(loader), so consecutive calls use consecutive batches; next
\* raises StopIteration exactly when every batch has been used, the handler
\* then re-creates the iterator and takes its first batch, so that no call
\* stops with StopIteration; only these statements move the iterator.
C15_MetaBatchesInOrder ==
    /\ [](metaloader_iter \in 0..config.nbatches)
    /\ [](pc \in {"outter_except", "outter_except_next"} =>
             /\ meta_steps > 0
             /\ meta_steps % config.nbatches = 0
             /\ metaloader_iter
                   = IF pc = "outter_except" THEN config.nbatches ELSE 0)
    /\ [][(pc = "outter_next" /\ pc' # "except") =>
             /\ pc' = IF metaloader_iter = config.nbatches
                      THEN "outter_except" ELSE "outter_meta"
             /\ (pc' = "outter_except" =>
                    UNCHANGED <<metaloader_iter, meta_batch>>)]_vars
    /\ [][(pc = "outter_except" /\ pc' # "except") =>
             /\ pc' = "outter_except_next"
             /\ metaloader_iter' = 0
             /\ meta_batch' = meta_batch]_vars
    /\ [][(pc = "outter_except_next" /\ pc' # "except") =>
             (pc' = "outter_meta" /\ meta_batch' = 0)]_vars
    /\ [][(pc' = "outter_meta") =>
             /\ pc \in {"outter_next", "outter_except_next"}
             /\ meta_batch' = meta_steps % config.nbatches
             /\ metaloader_iter' = meta_batch' + 1
             /\ (meta_steps > 0 =>
                    meta_batch' = (meta_batch + 1) % config.nbatches)]_vars
    /\ [][(metaloader_iter' # metaloader_iter \/ meta_batch' # meta_batch) =>
             \/ pc' = "outter_meta"
             \/ pc = "outter_except" /\ pc' = "outter_except_next"]_vars

\* The third outer-loop call on a meta loader of two batches: the iterator was
\* exhausted, re-created, and gave its first batch.
C15_Witness ==
    /\ pc = "training_for"
    /\ config.nbatches = 2
    /\ meta_steps = 3
    /\ meta_batch = 0
    /\ metaloader_iter = 1

====
